---- MODULE Spec2Model ----
(***************************************************************************)
(* A model of the LiveReview script collection: the unified-diff walkers,  *)
(* the GitLab inline-comment position builder, the user reset transaction, *)
(* the "approaches" retry loops, the Gitea re-login helpers, the GitLab     *)
(* webhook installer and the two webhook listeners.                        *)
(*                                                                         *)
(* Every script is an independent program, so the module holds one         *)
(* specification per script; the variables of the other scripts stay at    *)
(* their idle value.                                                       *)
(***************************************************************************)
EXTENDS Integers, Sequences, FiniteSets, TLC

VARIABLES
    \* ---- unified-diff walkers and create_inline_comment
    walker,       \* which function is running
    lines,        \* the diff text, one record per line of splitlines()
    target,       \* target_line
    force_side,   \* --side: "none", "new", "old"
    pos,          \* index of the next line the for loop will take
    old_ln,       \* old cursor (NoneLn: Python None)
    new_ln,       \* new cursor (NoneLn: Python None)
    first_add,    \* gitea find_first_added_line: new_line (NoneLn: None)
    fallback,     \* gitea find_first_added_line: fallback_line (NoneLn: None)
    ret,          \* the value returned by the walker
    payload,      \* position payload posted by create_inline_comment
    pc_d,         \* "walk", "returned", "posted", "idle"
    \* ---- reset_user.reset_user_onboarding
    db,           \* committed rows of the database
    db0,          \* the committed rows when the function was called
    tx,           \* rows deleted or changed by the open transaction
    r_step,       \* index in ResetSteps of the next statement group
    r_found,      \* the user row was found
    r_orgs,       \* orgs: the user's organisations were found non-empty
    r_commits,    \* calls of conn.commit()
    r_rollbacks,  \* calls of conn.rollback()
    r_ret,        \* return value: "none" while running, "True", "False"
    pc_r,         \* "select_user", "select_orgs", "steps", "commit", "done", "idle"
    \* ---- atest_line44.post_comment_on_line_44 / test_line160.post_comment_on_line_160
    a_fn,         \* "line44" or "line160"
    a_i,          \* index of the next approach of the for loop
    a_sent,       \* the requests posted so far, each with the server's answer
    a_success,    \* the local variable success
    a_ret,        \* return value: "none" while running, "True", "False", "raised"
    pc_a,         \* "version", "loop", "done", "idle"
    \* ---- gitea_login._post_with_relogin / _get_with_relogin
    ctx_session,  \* ctx.session: the number of the login that made it
    ctx_csrf,     \* ctx.csrf: the number of the login that issued it
    has_cookie,   \* the session still holds the gitea_incredible cookie
    dropped,      \* the cookie was popped just before the running call
    l_method,     \* "GET" or "POST"
    l_sends,      \* the requests of the running call, in order
    l_first,      \* the response to the first request
    l_logins,     \* _refresh_session calls of the running call
    l_ret,        \* the response returned
    l_calls,      \* calls made so far
    pc_l,         \* "ready", "sent", "refreshed", "returned", "raised", "idle"
    \* ---- livereviewbot.install_webhook
    hooks,        \* the project's hooks on the server: records [id, url]
    next_id,      \* the id GitLab gives the next hook
    project_access, \* permissions.project_access.access_level (0: absent)
    group_access, \* permissions.group_access.access_level (0: absent)
    h_log,        \* what each run of install_webhook did
    \* ---- livereviewbot.gitlab_hook, process_bot_mention
    g_req,        \* the request: token, kind, body_ok, payload
    g_status,     \* HTTP status answered (0: none yet)
    g_parsed,     \* request.get_json was called
    g_called,     \* the handlers invoked, in order
    g_mention,    \* what process_bot_mention returned
    g_reviewer,   \* what process_reviewer_change returned
    pc_g,         \* "recv", "parse", "mention", "reviewer", "done", "idle"
    \* ---- gh_cli.WebhookListener
    w_secret,     \* self.secret
    w_req,        \* the request: sig, body, event, json, members, holds
    w_status,     \* HTTP status answered (0: none yet)
    w_parsed,     \* request.get_json was called
    w_dispatched, \* the event handler invoked ("none": none)
    pc_w,         \* "recv", "parse", "dispatch", "done", "idle"
    \* ---- lrops.LiveReviewOps: cmd_bump, cmd_build, build_docker_image
    o_args,       \* the parsed command line
    o_env,        \* the repository: dirty, tag_exists
    o_cmds,       \* the commands _run_command executed, in order
    o_ret,        \* exit code as text, or the uncaught exception ("none" while running)
    pc_o,         \* "start", "latest", "dry", "verify", "tag", "push", "done", "idle"
    \* ---- gitea_handler.run_demo
    m_args,       \* delete_after, test_relogin, reply_parent
    m_issue,      \* the issue comments of the pull request on the server
    m_review,     \* the review comments of the pull request on the server
    m_made,       \* the comments this run created
    m_removed,    \* the comments this run deleted
    m_refs,       \* created_ids: general_id, inline_id, reply_id (None: none)
    m_ctx,        \* create_session returned a session
    m_listed,     \* review_comments and issue_comments as run_demo last fetched them
    pc_m,         \* "start", "delete_all", "relogin", "general", "inline", "reply",
                  \* "summary", "done", "raised", "idle"
    \* ---- delete_all_comments.delete_all_visible_comments
    v_resp,       \* the answer to GET .../discussions: status, discussions
    v_visible,    \* visible_notes
    v_attempts,   \* the DELETE requests sent: note and status of the answer
    v_success,    \* success_count
    v_failed,     \* failed_count
    v_ret,        \* "True", "False" ("none" while running)
    pc_v,         \* "fetch", "delete", "done", "idle"
    \* ---- the comment-pagination loops of gh_cli, gh_try, bb_delete_comments
    \* ---- and delete_pr_comments
    p_loop,       \* the function that runs
    p_items,      \* how many comments the server holds
    p_page,       \* page / the page next_url points at
    p_reqs,       \* the pages requested, in order
    p_status,     \* status_code of the last answer (0: none yet)
    p_all,        \* all_comments / results
    p_out,        \* the list returned
    p_ret,        \* "returned", "HTTPError" ("none" while running)
    pc_p          \* "loop", "done", "idle"

diffVars == <<walker, lines, target, force_side, pos, old_ln, new_ln,
              first_add, fallback, ret, payload, pc_d>>

resetVars == <<db, db0, tx, r_step, r_found, r_orgs, r_commits, r_rollbacks,
               r_ret, pc_r>>

appVars == <<a_fn, a_i, a_sent, a_success, a_ret, pc_a>>

loginVars == <<ctx_session, ctx_csrf, has_cookie, dropped, l_method, l_sends,
               l_first, l_logins, l_ret, l_calls, pc_l>>

hookVars == <<hooks, next_id, project_access, group_access, h_log>>

gitlabVars == <<g_req, g_status, g_parsed, g_called, g_mention, g_reviewer, pc_g>>

githubVars == <<w_secret, w_req, w_status, w_parsed, w_dispatched, pc_w>>

opsVars == <<o_args, o_env, o_cmds, o_ret, pc_o>>

demoVars == <<m_args, m_issue, m_review, m_made, m_removed, m_refs, m_ctx, m_listed,
              pc_m>>

notesVars == <<v_resp, v_visible, v_attempts, v_success, v_failed, v_ret, pc_v>>

pagesVars == <<p_loop, p_items, p_page, p_reqs, p_status, p_all, p_out, p_ret, pc_p>>

\* The variables of the scripts added to the model after the first eight
restVars == <<opsVars, demoVars, notesVars, pagesVars>>

vars == <<diffVars, resetVars, appVars, loginVars, hookVars, gitlabVars, githubVars,
          opsVars, demoVars, notesVars, pagesVars>>

-----------------------------------------------------------------------------
(* Bounds *)

\* Longest diff text, in lines.
MaxLines == 3

\* Python None where an int is expected.
NoneLn == -1

-----------------------------------------------------------------------------
(* Diff text.  A line of diff_text.splitlines() is a record:               *)
(*   h = "ok"      "@@ -os,c +ns,c @@" followed by the characters txt      *)
(*   h = "nocount" "@@ -os +ns @@" followed by txt                         *)
(*   h = "bad"     "@@ bad" followed by txt: no hunk header                *)
(*   h = "no"      a body line made of the characters txt                  *)

HeaderStarts == {<<1, 1>>, <<3, 2>>}

Hdr(kind, os, ns, tail) == [h |-> kind, os |-> os, ns |-> ns, txt |-> tail]
Body(chars) == [h |-> "no", os |-> 0, ns |-> 0, txt |-> chars]

CtxLine   == Body(<<" ", "x">>)
AddLine   == Body(<<"+", "x">>)
DelLine   == Body(<<"-", "x">>)
EmptyLine == Body(<< >>)
NoNlLine  == Body(<<"\\", " ", "N">>)   \* "\ No newline at end of file"

BodyLines == {CtxLine, AddLine, DelLine, EmptyLine, NoNlLine}
PlainHeaders == {Hdr("ok", p[1], p[2], << >>) : p \in HeaderStarts}
BadHeader == Hdr("bad", 0, 0, << >>)
SectionHeader == Hdr("ok", 3, 2, <<" ", "d">>)   \* "@@ -3,c +2,c @@ d"
NoCountHeader == Hdr("nocount", 1, 1, << >>)     \* "@@ -1 +1 @@"

SeqsUpTo(S, n) == UNION {[1..k -> S] : k \in 0..n}

\* line.startswith("@@ ")  /  raw.startswith("@@")
StartsWithAtAt(line) == line.h # "no"

\* hunk_header_re.match(line): counts are optional
HunkHeaderMatch(line) == line.h \in {"ok", "nocount"}

\* line[0]; "" for an empty line
Prefix(line) == IF line.txt = << >> THEN "" ELSE Head(line.txt)

-----------------------------------------------------------------------------
(* Walker results *)

NoRet == [kind |-> "running", old |-> NoneLn, new |-> NoneLn]
NoneRet == [kind |-> "None", old |-> NoneLn, new |-> NoneLn]
Cls(kind, o, n) == [kind |-> kind, old |-> o, new |-> n]
IntRet(n) == [kind |-> "int", old |-> NoneLn, new |-> n]

\* The loop state of a walker: cursors, gitea's new_line and fallback_line, and
\* the value returned (NoRet while the loop runs).
WState(o, n, fa, fb, r) == [old |-> o, new |-> n, fa |-> fa, fb |-> fb, ret |-> r]

\* classify_line_in_diff with the comparison made after the cursor moved.
classify_step_late(st, line, t) ==
    IF StartsWithAtAt(line)
    THEN IF ~HunkHeaderMatch(line)
         THEN [st EXCEPT !.old = NoneLn, !.new = NoneLn]
         ELSE [st EXCEPT !.old = line.os, !.new = line.ns]
    ELSE IF st.old = NoneLn \/ st.new = NoneLn THEN st
    ELSE IF line.txt = << >> THEN st
    ELSE IF Prefix(line) = " "
         THEN IF t = st.new \/ t = st.old
              THEN [st EXCEPT !.ret = Cls("context", st.old, st.new)]
              ELSE [st EXCEPT !.old = @ + 1, !.new = @ + 1]
    ELSE IF Prefix(line) = "+"
         THEN IF t = st.new + 1
              THEN [st EXCEPT !.ret = Cls("added", st.old, st.new + 1)]
              ELSE [st EXCEPT !.new = @ + 1]
    ELSE IF Prefix(line) = "-"
         THEN IF t = st.old
              THEN [st EXCEPT !.ret = Cls("deleted", st.old, st.new)]
              ELSE [st EXCEPT !.old = @ + 1]
    ELSE st

\* clarity_mr_comments.classify_line_in_diff: one iteration of the for loop.
classify_step(st, line, t) ==
    IF StartsWithAtAt(line)
    THEN IF ~HunkHeaderMatch(line)
         THEN [st EXCEPT !.old = NoneLn, !.new = NoneLn]
         ELSE [st EXCEPT !.old = line.os, !.new = line.ns]
    ELSE IF st.old = NoneLn \/ st.new = NoneLn THEN st
    ELSE IF line.txt = << >> THEN st
    ELSE IF Prefix(line) = " "
         THEN IF t = st.new \/ t = st.old
              THEN [st EXCEPT !.ret = Cls("context", st.old, st.new)]
              ELSE [st EXCEPT !.old = @ + 1, !.new = @ + 1]
    ELSE IF Prefix(line) = "+"
         THEN IF t = st.new
              THEN [st EXCEPT !.ret = Cls("added", st.old, st.new)]
              ELSE [st EXCEPT !.new = @ + 1]
    ELSE IF Prefix(line) = "-"
         THEN IF t = st.old
              THEN [st EXCEPT !.ret = Cls("deleted", st.old, st.new)]
              ELSE [st EXCEPT !.old = @ + 1]
    ELSE st

\* clarity_mr_comments.find_first_added_line: one iteration of the for loop.
clarity_ffal_step(st, line) ==
    IF StartsWithAtAt(line)
    THEN IF ~HunkHeaderMatch(line)
         THEN [st EXCEPT !.old = NoneLn, !.new = NoneLn]
         ELSE [st EXCEPT !.old = line.os, !.new = line.ns]
    ELSE IF st.old = NoneLn \/ st.new = NoneLn THEN st
    ELSE IF line.txt = << >> THEN st
    ELSE IF Prefix(line) = " "
         THEN [st EXCEPT !.old = @ + 1, !.new = @ + 1]
    ELSE IF Prefix(line) = "+"
         THEN [st EXCEPT !.ret = IntRet(st.new)]
    ELSE IF Prefix(line) = "-"
         THEN [st EXCEPT !.old = @ + 1]
    ELSE st

\* gitea_handler.find_first_added_line: one iteration of the for loop.  A header
\* that does not parse raises ValueError/IndexError, which the loop swallows.
gitea_ffal_step(st, line) ==
    IF StartsWithAtAt(line)
    THEN IF ~HunkHeaderMatch(line)
         THEN st
         ELSE [st EXCEPT !.old = line.os, !.new = line.ns,
                         !.fb = IF st.fb = NoneLn \/ st.fb = 0 THEN line.ns ELSE @]
    ELSE LET moved ==
                 IF Prefix(line) = "+"
                 THEN [st EXCEPT !.fa = IF st.fa = NoneLn THEN st.new ELSE @,
                                 !.new = @ + 1]
                 ELSE IF Prefix(line) = "-"
                 THEN [st EXCEPT !.old = @ + 1]
                 ELSE [st EXCEPT !.old = @ + 1, !.new = @ + 1]
         IN  IF moved.fa # NoneLn
             THEN [moved EXCEPT !.ret = IntRet(moved.fa)]
             ELSE moved

\* analyze_hunk_log.analyze_hunk_lines: one iteration.  The outer loop's step
\* (a new hunk) sets the cursors from the hunk's header; the inner loop's step
\* takes one entry of hunk['lines'].
analyze_step(st, line) ==
    IF line.h = "ok"
    THEN [st EXCEPT !.old = line.os, !.new = line.ns]
    ELSE IF line.txt = << >> THEN st
    ELSE IF Prefix(line) = "-"
         THEN [st EXCEPT !.old = @ + 1]
    ELSE IF Prefix(line) = "+"
         THEN [st EXCEPT !.new = @ + 1]
    ELSE [st EXCEPT !.old = @ + 1, !.new = @ + 1]

\* analyze_hunk_lines: the line_info entry an iteration writes for a line that
\* is not empty, at the cursors st
analyze_entry(st, line) ==
    IF Prefix(line) = "-"
    THEN [type |-> "deleted", old_line |-> st.old, new_line |-> 0]
    ELSE IF Prefix(line) = "+"
    THEN [type |-> "added", old_line |-> 0, new_line |-> st.new]
    ELSE [type |-> "context", old_line |-> st.old, new_line |-> st.new]

-----------------------------------------------------------------------------
(* analyze_hunk_log.parse_hunk_log, on the text "\n".join(lines) *)

DigitChars == <<"0", "1", "2", "3", "4", "5", "6", "7", "8", "9">>

\* str(n) for a one-digit n
DigitChar(n) == DigitChars[n + 1]

\* The characters of a line that parse_hunk_log's pattern does not take as a
\* header (its pattern needs both counts): a body line, "@@ bad", or
\* "@@ -os +ns @@", each followed by txt.
LineText(line) ==
    CASE line.h = "no" -> line.txt
      [] line.h = "bad" -> <<"@", "@", " ", "b", "a", "d">> \o line.txt
      [] OTHER -> <<"@", "@", " ", "-", DigitChar(line.os), " ", "+", DigitChar(line.ns),
                    " ", "@", "@">> \o line.txt

IsWs(chars) == \A i \in 1..Len(chars) : chars[i] = " "

RECURSIVE LStripChars(_)
LStripChars(chars) ==
    IF chars # << >> /\ Head(chars) = " " THEN LStripChars(Tail(chars)) ELSE chars

RECURSIVE RStripChars(_)
RStripChars(chars) ==
    IF chars # << >> /\ chars[Len(chars)] = " "
    THEN RStripChars(SubSeq(chars, 1, Len(chars) - 1))
    ELSE chars

RECURSIVE DropLeadingWs(_)
DropLeadingWs(pieces) ==
    IF pieces # << >> /\ IsWs(Head(pieces)) THEN DropLeadingWs(Tail(pieces)) ELSE pieces

RECURSIVE DropTrailingWs(_)
DropTrailingWs(pieces) ==
    IF pieces # << >> /\ IsWs(pieces[Len(pieces)])
    THEN DropTrailingWs(SubSeq(pieces, 1, Len(pieces) - 1))
    ELSE pieces

\* match.group(5).strip().split('\n'), the text given as its '\n'-separated pieces
StripSplit(pieces) ==
    LET kept == DropTrailingWs(DropLeadingWs(pieces))
    IN  IF kept = << >> THEN << << >> >>
        ELSE LET n == Len(kept)
             IN  [i \in 1..n |->
                    LET a == IF i = 1 THEN LStripChars(kept[i]) ELSE kept[i]
                    IN  IF i = n THEN RStripChars(a) ELSE a]

\* Index of the next header the pattern recognises after i, or Len+1
RECURSIVE NextOkHeader(_, _)
NextOkHeader(ls, i) ==
    IF i > Len(ls) THEN i
    ELSE IF ls[i].h = "ok" THEN i ELSE NextOkHeader(ls, i + 1)

\* group(5) of the match at header i: the rest of the header line, then the
\* lines up to the next header (with the newline before it) or up to "$".
\* The lazy group stops at the first place the lookahead holds, and "$" holds
\* at the end of the text and also just before a newline that ends the text,
\* so the group leaves that newline out unless it would be left empty.
RawPieces(ls, i) ==
    LET j == NextOkHeader(ls, i + 1)
        rest == <<ls[i].txt>> \o [k \in 1..(j - 1 - i) |-> LineText(ls[i + k])]
        n == Len(rest)
    IN  IF j <= Len(ls) THEN rest \o << << >> >>
        ELSE IF n >= 2 /\ rest[n] = << >> /\ SubSeq(rest, 1, n - 1) # << << >> >>
             THEN SubSeq(rest, 1, n - 1)
             ELSE rest

\* [\s\S]+? needs one character at least
HunkMatches(ls, i) == ls[i].h = "ok" /\ RawPieces(ls, i) # << << >> >>

RECURSIVE parse_from(_, _)
parse_from(ls, i) ==
    IF i > Len(ls) THEN << >>
    ELSE IF HunkMatches(ls, i)
         THEN <<[old_start |-> ls[i].os, new_start |-> ls[i].ns,
                 lines |-> StripSplit(RawPieces(ls, i))]>>
              \o parse_from(ls, NextOkHeader(ls, i + 1))
         ELSE parse_from(ls, i + 1)

parse_hunk_log(ls) == parse_from(ls, 1)

\* The order in which analyze_hunk_lines' two nested loops visit the hunks and
\* their lines: each hunk's header, then its lines.
RECURSIVE HunkItems(_)
HunkItems(hunks) ==
    IF hunks = << >> THEN << >>
    ELSE LET hk == Head(hunks)
         IN  <<Hdr("ok", hk.old_start, hk.new_start, << >>)>>
             \o [k \in 1..Len(hk.lines) |-> Body(hk.lines[k])]
             \o HunkItems(Tail(hunks))

-----------------------------------------------------------------------------
(* The walkers as functions of the whole text *)

RECURSIVE classify_walk(_, _, _, _)
classify_walk(ls, i, st, t) ==
    IF i > Len(ls) THEN NoneRet
    ELSE LET nx == classify_step(st, ls[i], t)
         IN  IF nx.ret # NoRet THEN nx.ret ELSE classify_walk(ls, i + 1, nx, t)

classify_line_in_diff(diff_text, target_line) ==
    IF diff_text = << >> THEN NoneRet
    ELSE classify_walk(diff_text, 1, WState(NoneLn, NoneLn, NoneLn, NoneLn, NoRet),
                       target_line)

RECURSIVE clarity_ffal_walk(_, _, _)
clarity_ffal_walk(ls, i, st) ==
    IF i > Len(ls) THEN NoneRet
    ELSE LET nx == clarity_ffal_step(st, ls[i])
         IN  IF nx.ret # NoRet THEN nx.ret ELSE clarity_ffal_walk(ls, i + 1, nx)

clarity_find_first_added_line(diff_text) ==
    IF diff_text = << >> THEN NoneRet
    ELSE clarity_ffal_walk(diff_text, 1, WState(NoneLn, NoneLn, NoneLn, NoneLn, NoRet))

\* return new_line or fallback_line
gitea_ffal_end(st) ==
    IF st.fa # NoneLn /\ st.fa # 0 THEN IntRet(st.fa)
    ELSE IF st.fb = NoneLn THEN NoneRet ELSE IntRet(st.fb)

RECURSIVE gitea_ffal_walk(_, _, _)
gitea_ffal_walk(ls, i, st) ==
    IF i > Len(ls) THEN gitea_ffal_end(st)
    ELSE LET nx == gitea_ffal_step(st, ls[i])
         IN  IF nx.ret # NoRet THEN nx.ret ELSE gitea_ffal_walk(ls, i + 1, nx)

gitea_find_first_added_line(patch) ==
    gitea_ffal_walk(patch, 1, WState(0, 0, NoneLn, NoneLn, NoRet))

-----------------------------------------------------------------------------
(* Specification SpecWalk: one walker runs over one diff text, a loop        *)
(* iteration per step.                                                      *)

notDiffVars == <<resetVars, appVars, loginVars, hookVars, gitlabVars, githubVars, restVars>>

Walkers == {"classify", "clarity_ffal", "gitea_ffal", "analyze"}

WalkLines == BodyLines \cup PlainHeaders \cup {BadHeader, SectionHeader, NoCountHeader}

Targets == 1..(MaxLines + 2)

\* What the walker's loop iterates over: the text's lines, or for
\* analyze_hunk_lines the hunks parse_hunk_log extracted.
Items == IF walker = "analyze" THEN HunkItems(parse_hunk_log(lines)) ELSE lines

CurState == WState(old_ln, new_ln, first_add, fallback, ret)

IdleDiff ==
    /\ walker = "none" /\ lines = << >> /\ target = 0 /\ force_side = "none"
    /\ pos = 0 /\ old_ln = NoneLn /\ new_ln = NoneLn /\ first_add = NoneLn
    /\ fallback = NoneLn /\ ret = NoRet /\ payload = << >> /\ pc_d = "idle"

IdleReset ==
    /\ db = {} /\ db0 = {} /\ tx = {} /\ r_step = 0 /\ r_found = FALSE
    /\ r_orgs = FALSE /\ r_commits = 0 /\ r_rollbacks = 0 /\ r_ret = "none"
    /\ pc_r = "idle"

IdleApp ==
    /\ a_fn = "none" /\ a_i = 0 /\ a_sent = << >> /\ a_success = FALSE
    /\ a_ret = "none" /\ pc_a = "idle"

IdleLogin ==
    /\ ctx_session = 0 /\ ctx_csrf = 0 /\ has_cookie = FALSE /\ dropped = FALSE
    /\ l_method = "none" /\ l_sends = << >> /\ l_first = << >> /\ l_logins = 0
    /\ l_ret = << >> /\ l_calls = 0 /\ pc_l = "idle"

IdleHook ==
    /\ hooks = {} /\ next_id = 0 /\ project_access = 0 /\ group_access = 0
    /\ h_log = << >>

IdleGitlab ==
    /\ g_req = << >> /\ g_status = 0 /\ g_parsed = FALSE /\ g_called = << >>
    /\ g_mention = << >> /\ g_reviewer = << >> /\ pc_g = "idle"

IdleGithub ==
    /\ w_secret = "none" /\ w_req = << >> /\ w_status = 0 /\ w_parsed = FALSE
    /\ w_dispatched = "none" /\ pc_w = "idle"

IdleOps ==
    /\ o_args = << >> /\ o_env = << >> /\ o_cmds = << >> /\ o_ret = "none"
    /\ pc_o = "idle"

\* The scripts added to the model after the first eight, at rest
IdleDemo ==
    /\ m_args = << >> /\ m_issue = {} /\ m_review = {} /\ m_made = {} /\ m_removed = {}
    /\ m_refs = << >> /\ m_ctx = FALSE /\ m_listed = << >> /\ pc_m = "idle"

IdleNotes ==
    /\ v_resp = << >> /\ v_visible = << >> /\ v_attempts = << >>
    /\ v_success = 0 /\ v_failed = 0 /\ v_ret = "none" /\ pc_v = "idle"

IdlePages ==
    /\ p_loop = "none" /\ p_items = 0 /\ p_page = 0 /\ p_reqs = << >> /\ p_all = << >>
    /\ p_status = 0 /\ p_out = << >> /\ p_ret = "none" /\ pc_p = "idle"

IdleRest == IdleOps /\ IdleDemo /\ IdleNotes /\ IdlePages

InitWalk ==
    /\ IdleRest
    /\ IdleReset /\ IdleApp /\ IdleLogin /\ IdleHook /\ IdleGitlab /\ IdleGithub
    /\ walker \in Walkers
    /\ lines \in SeqsUpTo(WalkLines, MaxLines)
    /\ target \in IF walker = "classify" THEN Targets ELSE {0}
    /\ force_side = "none"
    /\ pos = 1
    /\ old_ln = IF walker \in {"classify", "clarity_ffal"} THEN NoneLn ELSE 0
    /\ new_ln = IF walker \in {"classify", "clarity_ffal"} THEN NoneLn ELSE 0
    /\ first_add = NoneLn
    /\ fallback = NoneLn
    /\ ret = NoRet
    /\ payload = << >>
    /\ pc_d = "walk"

SetState(nx) ==
    /\ old_ln' = nx.old
    /\ new_ln' = nx.new
    /\ first_add' = nx.fa
    /\ fallback' = nx.fb
    /\ ret' = nx.ret
    /\ pos' = pos + 1
    /\ pc_d' = IF nx.ret # NoRet THEN "returned" ELSE "walk"
    /\ UNCHANGED <<walker, lines, target, force_side, payload>>
    /\ UNCHANGED notDiffVars

ClassifyIter ==
    /\ pc_d = "walk" /\ walker = "classify" /\ pos <= Len(Items)
    /\ SetState(classify_step(CurState, Items[pos], target))

ClarityFirstAddedIter ==
    /\ pc_d = "walk" /\ walker = "clarity_ffal" /\ pos <= Len(Items)
    /\ SetState(clarity_ffal_step(CurState, Items[pos]))

GiteaFirstAddedIter ==
    /\ pc_d = "walk" /\ walker = "gitea_ffal" /\ pos <= Len(Items)
    /\ SetState(gitea_ffal_step(CurState, Items[pos]))

AnalyzeIter ==
    /\ pc_d = "walk" /\ walker = "analyze" /\ pos <= Len(Items)
    /\ SetState(analyze_step(CurState, Items[pos]))

\* The loop ran out of lines: the statement after the loop.
WalkEnd ==
    /\ pc_d = "walk" /\ pos > Len(Items)
    /\ ret' = CASE walker = "gitea_ffal" -> gitea_ffal_end(CurState)
                [] walker = "analyze" -> [kind |-> "line_info", old |-> old_ln, new |-> new_ln]
                [] OTHER -> NoneRet
    /\ pc_d' = "returned"
    /\ UNCHANGED <<walker, lines, target, force_side, pos, old_ln, new_ln,
                   first_add, fallback, payload>>
    /\ UNCHANGED notDiffVars

NextWalk ==
    \/ ClassifyIter
    \/ ClarityFirstAddedIter
    \/ GiteaFirstAddedIter
    \/ AnalyzeIter
    \/ WalkEnd

SpecWalk == InitWalk /\ [][NextWalk]_vars

\* The line the walker took in the step just made.
Taken == Items[pos]

\* The walker is inside a hunk: the last header-like line before pos is a hunk
\* header.
InHunk ==
    \E j \in 1..(pos - 1) :
        /\ Items[j].h \in {"ok", "nocount"}
        /\ \A k \in (j + 1)..(pos - 1) : Items[k].h = "no"

\* C1: at a hunk header every walker sets the cursors to old_start/new_start;
\* inside a hunk a leading space advances both cursors, '+' only the new one,
\* '-' only the old one, and no other line moves a cursor.
C1_CursorDiscipline ==
    [][ (pc_d = "walk" /\ pos' = pos + 1) =>
          IF Taken.h \in {"ok", "nocount"}
          THEN old_ln' = Taken.os /\ new_ln' = Taken.ns
          ELSE (InHunk /\ Taken.h = "no" /\ ret' = NoRet) =>
                 /\ old_ln' = old_ln + (IF Prefix(Taken) \in {" ", "-"} THEN 1 ELSE 0)
                 /\ new_ln' = new_ln + (IF Prefix(Taken) \in {" ", "+"} THEN 1 ELSE 0)
      ]_vars

-----------------------------------------------------------------------------
(* clarity_mr_comments.create_inline_comment *)

\* kind_old_new: detection bypassed by --side, the classification, or the
\* fallbacks when the target line is not in the diff.
KindOldNew(diff_text, target_line, side) ==
    IF side = "new" THEN Cls("added", NoneLn, target_line)
    ELSE IF side = "old" THEN Cls("deleted", target_line, NoneLn)
    ELSE LET cls == classify_line_in_diff(diff_text, target_line)
         IN  IF cls = NoneRet
             THEN LET fallback_new == clarity_find_first_added_line(diff_text)
                  IN  IF fallback_new # NoneRet
                      THEN Cls("added", NoneLn, fallback_new.new)
                      ELSE Cls("added", NoneLn, target_line)
             ELSE cls

OrTarget(n, target_line) == IF n # NoneLn THEN n ELSE target_line

\* payload["position"], its line keys only.
PositionLinesSwapped(kon, target_line) ==
    IF kon.kind = "added"
    THEN [new_line |-> OrTarget(kon.new, target_line)]
    ELSE IF kon.kind = "deleted"
    THEN [new_line |-> OrTarget(kon.new, target_line)]
    ELSE [old_line |-> OrTarget(kon.old, target_line),
          new_line |-> OrTarget(kon.new, target_line)]

PositionLines(kon, target_line) ==
    IF kon.kind = "added"
    THEN [new_line |-> OrTarget(kon.new, target_line)]
    ELSE IF kon.kind = "deleted"
    THEN [old_line |-> OrTarget(kon.old, target_line)]
    ELSE [old_line |-> OrTarget(kon.old, target_line),
          new_line |-> OrTarget(kon.new, target_line)]

-----------------------------------------------------------------------------
(* Specification SpecInline: classify_line_in_diff called on a diff and a    *)
(* target line, and create_inline_comment posting a position for them.      *)

InlineLines == BodyLines \cup PlainHeaders \cup {BadHeader}

Sides == {"none", "new", "old"}

InitInline ==
    /\ IdleRest
    /\ IdleReset /\ IdleApp /\ IdleLogin /\ IdleHook /\ IdleGitlab /\ IdleGithub
    /\ walker = "classify"
    /\ lines \in SeqsUpTo(InlineLines, MaxLines)
    /\ target \in Targets
    /\ force_side = "none"
    /\ pos = 0
    /\ old_ln = NoneLn /\ new_ln = NoneLn /\ first_add = NoneLn /\ fallback = NoneLn
    /\ ret = NoRet
    /\ payload = << >>
    /\ pc_d = "start"

\* classify_line_in_diff(lines, target) is called and returns.
ClassifyCall ==
    /\ pc_d = "start"
    /\ ret' = classify_line_in_diff(lines, target)
    /\ pc_d' = "returned"
    /\ UNCHANGED <<walker, lines, target, force_side, pos, old_ln, new_ln,
                   first_add, fallback, payload>>
    /\ UNCHANGED notDiffVars

\* create_inline_comment(..., change, file_path, target_line, text, force_side)
CreateInlineComment ==
    /\ pc_d = "start"
    /\ \E side \in Sides :
         /\ force_side' = side
         /\ ret' = KindOldNew(lines, target, side)
         /\ payload' = PositionLines(KindOldNew(lines, target, side), target)
    /\ pc_d' = "posted"
    /\ UNCHANGED <<walker, lines, target, pos, old_ln, new_ln, first_add, fallback>>
    /\ UNCHANGED notDiffVars

NextInline ==
    \/ ClassifyCall
    \/ CreateInlineComment

SpecInline == InitInline /\ [][NextInline]_vars

\* ---- what a diff says about its lines, counted rather than walked

\* The header-like line that governs line i: the last one before it.
GoverningHeader(ls, i) ==
    LET hs == {j \in 1..(i - 1) : ls[j].h # "no"}
    IN  IF hs = {} THEN 0 ELSE CHOOSE j \in hs : \A k \in hs : k <= j

IsBodyOfKind(ls, i, prefixes) ==
    ls[i].h = "no" /\ ls[i].txt # << >> /\ Head(ls[i].txt) \in prefixes

InValidHunk(ls, i) ==
    /\ GoverningHeader(ls, i) # 0
    /\ ls[GoverningHeader(ls, i)].h \in {"ok", "nocount"}

\* Old-file and new-file number of body line i.
OldNo(ls, i) ==
    LET g == GoverningHeader(ls, i)
    IN  ls[g].os + Cardinality({k \in (g + 1)..(i - 1) : IsBodyOfKind(ls, k, {" ", "-"})})

NewNo(ls, i) ==
    LET g == GoverningHeader(ls, i)
    IN  ls[g].ns + Cardinality({k \in (g + 1)..(i - 1) : IsBodyOfKind(ls, k, {" ", "+"})})

KindOf(ls, i) ==
    CASE Head(ls[i].txt) = " " -> "context"
      [] Head(ls[i].txt) = "+" -> "added"
      [] Head(ls[i].txt) = "-" -> "deleted"

LineMatches(ls, i, t) ==
    /\ IsBodyOfKind(ls, i, {" ", "+", "-"})
    /\ InValidHunk(ls, i)
    /\ \/ Head(ls[i].txt) = " " /\ (t = NewNo(ls, i) \/ t = OldNo(ls, i))
       \/ Head(ls[i].txt) = "+" /\ t = NewNo(ls, i)
       \/ Head(ls[i].txt) = "-" /\ t = OldNo(ls, i)

MatchSet(ls, t) == {i \in 1..Len(ls) : LineMatches(ls, i, t)}

FirstMatch(ls, t) == CHOOSE i \in MatchSet(ls, t) : \A k \in MatchSet(ls, t) : i <= k

\* C2 (as amended): classify_line_in_diff returns None when no body line
\* matches, and otherwise the kind of the first matching line with BOTH cursor
\* values at that line, also the old cursor for an added line and the new
\* cursor for a deleted line.
C2_ClassifyReportsBothCursors ==
    (pc_d = "returned" /\ walker = "classify") =>
        IF MatchSet(lines, target) = {}
        THEN ret = NoneRet
        ELSE LET i == FirstMatch(lines, target)
             IN  ret = Cls(KindOf(lines, i), OldNo(lines, i), NewNo(lines, i))

\* C2 witness: an added line was matched after the cursors had advanced.
C2_Witness ==
    /\ pc_d = "returned" /\ walker = "classify"
    /\ ret.kind = "added"
    /\ MatchSet(lines, target) # {}
    /\ FirstMatch(lines, target) > 2
    /\ ret.new = target /\ ret.new # lines[GoverningHeader(lines, FirstMatch(lines, target))].ns

\* C2 as stated: an added line is reported with no old line number, a deleted
\* line with no new line number, a context line with both.
C2_Original ==
    (pc_d = "returned" /\ walker = "classify" /\ MatchSet(lines, target) # {}) =>
        LET i == FirstMatch(lines, target)
        IN  ret = Cls(KindOf(lines, i),
                      IF KindOf(lines, i) = "added" THEN NoneLn ELSE OldNo(lines, i),
                      IF KindOf(lines, i) = "deleted" THEN NoneLn ELSE NewNo(lines, i))

\* C3: the position posted holds new_line only for an added target line or
\* --side new, old_line only for a deleted one or --side old, both for a
\* context line, with the numbers of the matched diff line.
C3_PositionKeys ==
    pc_d = "posted" =>
        CASE force_side = "new" -> payload = [new_line |-> target]
          [] force_side = "old" -> payload = [old_line |-> target]
          [] OTHER ->
               MatchSet(lines, target) # {} =>
                 LET i == FirstMatch(lines, target)
                 IN  CASE KindOf(lines, i) = "added" ->
                            payload = [new_line |-> NewNo(lines, i)]
                       [] KindOf(lines, i) = "deleted" ->
                            payload = [old_line |-> OldNo(lines, i)]
                       [] KindOf(lines, i) = "context" ->
                            payload = [old_line |-> OldNo(lines, i),
                                       new_line |-> NewNo(lines, i)]

\* C3 witness: a deleted line found by detection, posted with old_line alone.
C3_Witness ==
    /\ pc_d = "posted" /\ force_side = "none"
    /\ MatchSet(lines, target) # {}
    /\ KindOf(lines, FirstMatch(lines, target)) = "deleted"
    /\ DOMAIN payload = {"old_line"}
    /\ payload.old_line = target
    /\ FirstMatch(lines, target) > 2

-----------------------------------------------------------------------------
(* reset_user.reset_user_onboarding.  The database is the set of row kinds   *)
(* that exist for the target user and the user's organisation: "users" (the *)
(* user row), "cli_ts" (last_cli_used_at is set), "other_member" (the       *)
(* organisation has another member) and one entry per table holding rows.   *)

notResetVars == <<diffVars, appVars, loginVars, hookVars, gitlabVars, githubVars, restVars>>

OrgTablesA == <<"reviews", "ai_connectors", "integration_tokens", "api_keys",
                "recent_activity", "prompt_application_context">>
OrgTablesB == <<"license_log", "subscriptions">>

\* The statement groups after the two SELECTs, in the order of the code.
ResetSteps == <<"cli">> \o OrgTablesA \o <<"user_roles", "auth_tokens">>
              \o OrgTablesB \o <<"orgs", "users">>

OrgScoped == {"reviews", "ai_connectors", "integration_tokens", "api_keys",
              "recent_activity", "prompt_application_context", "license_log",
              "subscriptions"}

Rows == OrgScoped \cup {"users", "cli_ts", "user_roles", "auth_tokens", "orgs",
                        "other_member"}

\* What the open transaction reads: the committed rows less its own deletes.
Visible == db \ tx

\* The rows a statement group removes, given what the transaction sees.
StepWrites(step, seen, orgs) ==
    CASE step = "cli" -> seen \cap {"cli_ts"}
      [] step \in OrgScoped -> IF orgs THEN seen \cap {step} ELSE {}
      [] step \in {"user_roles", "auth_tokens"} -> seen \cap {step}
      [] step = "orgs" ->
           \* remaining_members == 0: the user's own role is gone by now
           IF orgs /\ "other_member" \notin seen /\ "user_roles" \notin seen
           THEN seen \cap {"orgs"} ELSE {}
      [] step = "users" -> seen \cap {"users"}

\* conn.commit() is reached when the statement groups are done.
ReadyToCommitEarly(i) == i > 2

ReadyToCommit(i) == i > Len(ResetSteps)

InitReset ==
    /\ IdleRest
    /\ IdleDiff /\ IdleApp /\ IdleLogin /\ IdleHook /\ IdleGitlab /\ IdleGithub
    /\ db \in {d \in SUBSET Rows :
                 /\ (d \cap (OrgScoped \cup {"other_member"}) # {}) => "orgs" \in d
                 /\ "users" \notin d => d = {}}
    /\ db0 = db
    /\ tx = {}
    /\ r_step = 1
    /\ r_found = FALSE
    /\ r_orgs = FALSE
    /\ r_commits = 0
    /\ r_rollbacks = 0
    /\ r_ret = "none"
    /\ pc_r = "select_user"

\* SELECT id, email FROM users; not found: return False
SelectUser ==
    /\ pc_r = "select_user"
    /\ r_found' = ("users" \in Visible)
    /\ IF "users" \in Visible
       THEN pc_r' = "select_orgs" /\ r_ret' = r_ret
       ELSE pc_r' = "done" /\ r_ret' = "False"
    /\ UNCHANGED <<db, db0, tx, r_step, r_orgs, r_commits, r_rollbacks>>
    /\ UNCHANGED notResetVars

\* SELECT o.id, o.name FROM orgs o INNER JOIN user_roles ur ...
SelectOrgs ==
    /\ pc_r = "select_orgs"
    /\ r_orgs' = ({"orgs", "user_roles"} \subseteq Visible)
    /\ pc_r' = "steps"
    /\ UNCHANGED <<db, db0, tx, r_step, r_found, r_commits, r_rollbacks, r_ret>>
    /\ UNCHANGED notResetVars

\* One statement group: the count and, when there are rows, the UPDATE/DELETE.
ExecuteStep ==
    /\ pc_r = "steps"
    /\ ~ReadyToCommit(r_step)
    /\ tx' = tx \cup StepWrites(ResetSteps[r_step], Visible, r_orgs)
    /\ r_step' = r_step + 1
    /\ UNCHANGED <<db, db0, r_found, r_orgs, r_commits, r_rollbacks, r_ret, pc_r>>
    /\ UNCHANGED notResetVars

\* conn.commit() succeeds; return True
Commit ==
    /\ pc_r = "steps"
    /\ ReadyToCommit(r_step)
    /\ r_commits' = r_commits + 1
    /\ db' = db \ tx
    /\ tx' = {}
    /\ r_ret' = "True"
    /\ pc_r' = "done"
    /\ UNCHANGED <<db0, r_step, r_found, r_orgs, r_rollbacks>>
    /\ UNCHANGED notResetVars

\* conn.commit() raises: the except block rolls back; return False
CommitRaises ==
    /\ pc_r = "steps"
    /\ ReadyToCommit(r_step)
    /\ r_commits' = r_commits + 1
    /\ r_rollbacks' = r_rollbacks + 1
    /\ tx' = {}
    /\ r_ret' = "False"
    /\ pc_r' = "done"
    /\ UNCHANGED <<db, db0, r_step, r_found, r_orgs>>
    /\ UNCHANGED notResetVars

\* cursor.execute raises in a SELECT or a statement group: except Exception:
\* conn.rollback(); return False
StatementRaises ==
    /\ pc_r \in {"select_user", "select_orgs", "steps"}
    /\ ~(pc_r = "steps" /\ ReadyToCommit(r_step))
    /\ r_rollbacks' = r_rollbacks + 1
    /\ tx' = {}
    /\ r_ret' = "False"
    /\ pc_r' = "done"
    /\ UNCHANGED <<db, db0, r_step, r_found, r_orgs, r_commits>>
    /\ UNCHANGED notResetVars

NextReset ==
    \/ SelectUser
    \/ SelectOrgs
    \/ ExecuteStep
    \/ Commit
    \/ CommitRaises
    \/ StatementRaises

SpecReset == InitReset /\ [][NextReset]_vars

\* C4: one transaction.  commit is called at most once and only after every
\* statement group ran; the committed rows change only by a successful commit,
\* which then removes exactly what the groups deleted; a raise means one
\* rollback, return False and the committed rows as they were; a user that is
\* not found means return False with nothing written.
C4_SingleTransaction ==
    /\ r_commits <= 1
    /\ r_commits = 1 => (r_step = Len(ResetSteps) + 1 /\ pc_r = "done")
    /\ pc_r # "done" => (db = db0 /\ r_commits = 0 /\ r_rollbacks = 0)
    /\ pc_r = "done" =>
         /\ r_ret \in {"True", "False"}
         /\ r_ret = "True" <=> (r_commits = 1 /\ r_rollbacks = 0)
         /\ r_ret = "True" =>
              /\ "users" \notin db /\ "user_roles" \notin db /\ "auth_tokens" \notin db
              /\ "cli_ts" \notin db
              /\ r_orgs => db \cap OrgScoped = {}
              /\ "orgs" \in db <=> ("orgs" \in db0 /\ (~r_orgs \/ "other_member" \in db0))
         /\ r_ret = "False" => db = db0
         /\ (r_ret = "False" /\ r_found) => r_rollbacks = 1
         /\ ~r_found /\ r_rollbacks = 0 => (r_ret = "False" /\ tx = {} /\ r_step = 1)
    /\ r_rollbacks <= 1

\* C4 witness: a statement raised after earlier groups had deleted rows, and
\* nothing of the run was committed.
C4_Witness ==
    /\ pc_r = "done" /\ r_ret = "False" /\ r_rollbacks = 1 /\ r_commits = 0
    /\ r_step > 8 /\ r_orgs /\ "reviews" \in db /\ "user_roles" \in db

-----------------------------------------------------------------------------
(* atest_line44.post_comment_on_line_44 and test_line160.post_comment_on_line_160 *)

notAppVars == <<diffVars, resetVars, loginVars, hookVars, gitlabVars, githubVars, restVars>>

\* The line parameter of the function's target: line 44 is an added line,
\* line 160 a deleted one.
OneLineKey(fn) == IF fn = "line44" THEN "new_line" ELSE "old_line"

\* approaches: the request type and the line keys of each entry, in list order.
Approaches(fn) ==
    << [type |-> "json", keys |-> {OneLineKey(fn)}],
       [type |-> "form", keys |-> {OneLineKey(fn)}],
       [type |-> "json", keys |-> {"old_line", "new_line"}],
       [type |-> "form", keys |-> {"old_line", "new_line"}] >>

\* What requests.post can come back with: a status code, or (status 0) an
\* exception raised by the transport.
PostOutcomes == {200, 201, 400, 404, 500, 0}

\* response.status_code in [200, 201]
IsSuccessOnly200(status) == status = 200

IsSuccess(status) == status \in {200, 201}

InitApp ==
    /\ IdleRest
    /\ IdleDiff /\ IdleReset /\ IdleLogin /\ IdleHook /\ IdleGitlab /\ IdleGithub
    /\ a_fn \in {"line44", "line160"}
    /\ a_i = 1
    /\ a_sent = << >>
    /\ a_success = FALSE
    /\ a_ret = "none"
    /\ pc_a = "version"

\* What get_mr_version can end with: a version, None (no 200 answer, or an
\* empty list), or an exception raised by requests.get.
VersionOutcomes == {"version", "None", "raises"}

\* version = get_mr_version(...); "if not version: return False".  An exception
\* of requests.get leaves post_comment_on_line_44, which has no try, and is
\* caught by the outer try of post_comment_on_line_160, which returns False.
GetVersion ==
    /\ pc_a = "version"
    /\ \E outcome \in VersionOutcomes :
         CASE outcome = "version" -> pc_a' = "loop" /\ a_ret' = a_ret
           [] outcome = "None" -> pc_a' = "done" /\ a_ret' = "False"
           [] outcome = "raises" ->
                /\ pc_a' = "done"
                /\ a_ret' = IF a_fn = "line44" THEN "raised" ELSE "False"
    /\ UNCHANGED <<a_fn, a_i, a_sent, a_success>>
    /\ UNCHANGED notAppVars

\* One iteration of "for i, approach in enumerate(approaches)": the POST and
\* the test of its status.  An exception ends post_comment_on_line_44 (it has
\* no try) and is caught by post_comment_on_line_160, which continues.
TryApproach ==
    /\ pc_a = "loop"
    /\ a_i <= Len(Approaches(a_fn))
    /\ \E status \in PostOutcomes :
         /\ a_sent' = Append(a_sent, [approach |-> Approaches(a_fn)[a_i], status |-> status])
         /\ IF status = 0
            THEN IF a_fn = "line44"
                 THEN /\ pc_a' = "done" /\ a_ret' = "raised"
                      /\ UNCHANGED <<a_i, a_success>>
                 ELSE /\ a_i' = a_i + 1
                      /\ UNCHANGED <<a_success, a_ret, pc_a>>
            ELSE IF IsSuccess(status)
                 THEN /\ a_success' = TRUE
                      /\ pc_a' = "done" /\ a_ret' = "True"
                      /\ UNCHANGED a_i
                 ELSE /\ a_i' = a_i + 1
                      /\ UNCHANGED <<a_success, a_ret, pc_a>>
    /\ UNCHANGED a_fn
    /\ UNCHANGED notAppVars

\* The list is exhausted: return success
LoopEnd ==
    /\ pc_a = "loop"
    /\ a_i > Len(Approaches(a_fn))
    /\ a_ret' = IF a_success THEN "True" ELSE "False"
    /\ pc_a' = "done"
    /\ UNCHANGED <<a_fn, a_i, a_sent, a_success>>
    /\ UNCHANGED notAppVars

NextApp ==
    \/ GetVersion
    \/ TryApproach
    \/ LoopEnd

SpecApp == InitApp /\ [][NextApp]_vars

Answered2xx(k) == a_sent[k].status \in {200, 201}

\* The order the text gives: JSON with the one line parameter, form with the
\* one, JSON with both, form with both.
StatedOrder(fn) ==
    LET one == IF fn = "line44" THEN {"new_line"} ELSE {"old_line"}
        both == {"old_line", "new_line"}
    IN  << <<"json", one>>, <<"form", one>>, <<"json", both>>, <<"form", both>> >>

\* C5: the approaches are tried in list order; only an attempt answered 200 or
\* 201 ends the sequence, and it is the last one made; a failed status is
\* followed by the next approach until the list is exhausted; the function
\* returns True exactly when some attempt got 200 or 201.
C5_ApproachesInOrder ==
    /\ Len(a_sent) <= 4
    /\ \A k \in 1..Len(a_sent) :
         /\ <<a_sent[k].approach.type, a_sent[k].approach.keys>> = StatedOrder(a_fn)[k]
         /\ Answered2xx(k) => (k = Len(a_sent) /\ pc_a = "done")
    /\ pc_a = "loop" => Len(a_sent) = a_i - 1
    /\ (pc_a = "done" /\ a_ret # "raised") =>
         /\ a_ret = "True" <=> \E k \in 1..Len(a_sent) : Answered2xx(k)
         /\ (a_ret = "False" /\ a_sent # << >>) => Len(a_sent) = 4
    /\ \A k \in 1..(Len(a_sent) - 1) : a_sent[k].status # 0 \/ a_fn = "line160"

\* C5 witness: two failed attempts, then the third answered 201 ended the run.
C5_Witness ==
    /\ pc_a = "done" /\ a_ret = "True" /\ Len(a_sent) = 3
    /\ a_sent[1].status = 400 /\ a_sent[2].status = 500 /\ a_sent[3].status = 201

-----------------------------------------------------------------------------
(* gitea_login: _should_relogin, _refresh_session, _post_with_relogin and   *)
(* _get_with_relogin, as gitea_handler.test_relogin_flow drives them.        *)

notLoginVars == <<diffVars, resetVars, appVars, hookVars, gitlabVars, githubVars, restVars>>

\* Calls made in one run.
MaxCalls == 2

\* A response, as far as _should_relogin reads it: the status code, whether the
\* Location header holds "user/login", whether the first 500 characters of the
\* body hold "user/login" or "sign in".
Responses == [status : {200, 302, 401, 403, 404}, loc_login : BOOLEAN, body_login : BOOLEAN]

_should_relogin_no_body(resp) ==
    \/ resp.status \in {401, 403}
    \/ resp.status \in {301, 302, 303, 307, 308} /\ resp.loc_login

_should_relogin(resp) ==
    \/ resp.status \in {401, 403}
    \/ resp.status \in {301, 302, 303, 307, 308} /\ resp.loc_login
    \/ resp.status = 200 /\ resp.body_login

\* r = _do() / r = ctx.session.get(url): the server's possible answers.  The
\* helpers read nothing but the response, so the answer to a request is any
\* response, whether or not the session still carries its cookie.
ServerAnswers == Responses

\* _do() / ctx.session.get(url): what goes on the wire.  A POST carries ctx.csrf
\* in the _csrf form field and in the X-CSRF-Token header.
Request ==
    [method |-> l_method, session |-> ctx_session,
     form_csrf |-> IF l_method = "POST" THEN ctx_csrf ELSE 0,
     header_csrf |-> IF l_method = "POST" THEN ctx_csrf ELSE 0]

InitLogin ==
    /\ IdleRest
    /\ IdleDiff /\ IdleReset /\ IdleApp /\ IdleHook /\ IdleGitlab /\ IdleGithub
    /\ ctx_session = 1        \* create_session at the start of the run
    /\ ctx_csrf = 1
    /\ has_cookie = TRUE
    /\ dropped = FALSE
    /\ l_method = "none"
    /\ l_sends = << >>
    /\ l_first = << >>
    /\ l_logins = 0
    /\ l_ret = << >>
    /\ l_calls = 0
    /\ pc_l = "ready"

\* ctx.session.cookies.pop("gitea_incredible", None), between two calls; the
\* default None makes it a no-op on a session that holds no such cookie.
DropCookie ==
    /\ pc_l \in {"ready", "returned"}
    /\ l_calls < MaxCalls
    /\ has_cookie' = FALSE
    /\ dropped' = TRUE
    /\ pc_l' = "ready"
    /\ l_method' = "none" /\ l_sends' = << >> /\ l_first' = << >> /\ l_logins' = 0
    /\ l_ret' = << >>
    /\ UNCHANGED <<ctx_session, ctx_csrf, l_calls>>
    /\ UNCHANGED notLoginVars

\* _get_with_relogin / _post_with_relogin is called: the first request is sent
\* and answered.
FirstSend ==
    /\ pc_l \in {"ready", "returned"}
    /\ l_calls < MaxCalls
    /\ \E m \in {"GET", "POST"}, r \in ServerAnswers :
         /\ l_method' = m
         /\ l_sends' = <<[method |-> m, session |-> ctx_session,
                          form_csrf |-> IF m = "POST" THEN ctx_csrf ELSE 0,
                          header_csrf |-> IF m = "POST" THEN ctx_csrf ELSE 0]>>
         /\ l_first' = r
         /\ l_ret' = << >>
    /\ dropped' = (pc_l = "ready" /\ dropped)
    /\ l_logins' = 0
    /\ l_calls' = l_calls + 1
    /\ pc_l' = "sent"
    /\ UNCHANGED <<ctx_session, ctx_csrf, has_cookie>>
    /\ UNCHANGED notLoginVars

\* if not _should_relogin(r): return r
ReturnFirst ==
    /\ pc_l = "sent"
    /\ ~_should_relogin(l_first)
    /\ l_ret' = l_first
    /\ pc_l' = "returned"
    /\ UNCHANGED <<ctx_session, ctx_csrf, has_cookie, dropped, l_method, l_sends,
                   l_first, l_logins, l_calls>>
    /\ UNCHANGED notLoginVars

\* _refresh_session(ctx): create_session logs in again and ctx takes the new
\* session, csrf token and cookies.
RefreshSession ==
    /\ pc_l = "sent"
    /\ _should_relogin(l_first)
    /\ l_logins' = l_logins + 1
    /\ ctx_session' = ctx_session + 1
    /\ ctx_csrf' = ctx_session + 1
    /\ has_cookie' = TRUE
    /\ pc_l' = "refreshed"
    /\ UNCHANGED <<dropped, l_method, l_sends, l_first, l_ret, l_calls>>
    /\ UNCHANGED notLoginVars

\* create_session raises (login page unreachable, login refused, no cookie):
\* the exception leaves the helper.
RefreshRaises ==
    /\ pc_l = "sent"
    /\ _should_relogin(l_first)
    /\ l_logins' = l_logins + 1
    /\ pc_l' = "raised"
    /\ UNCHANGED <<ctx_session, ctx_csrf, has_cookie, dropped, l_method, l_sends,
                   l_first, l_ret, l_calls>>
    /\ UNCHANGED notLoginVars

\* r = _do() again / ctx.session.get(url) again; return r
SecondSend ==
    /\ pc_l = "refreshed"
    /\ \E r \in ServerAnswers :
         /\ l_sends' = Append(l_sends, Request)
         /\ l_ret' = r
    /\ pc_l' = "returned"
    /\ UNCHANGED <<ctx_session, ctx_csrf, has_cookie, dropped, l_method, l_first,
                   l_logins, l_calls>>
    /\ UNCHANGED notLoginVars

NextLogin ==
    \/ DropCookie
    \/ FirstSend
    \/ ReturnFirst
    \/ RefreshSession
    \/ RefreshRaises
    \/ SecondSend

SpecLogin == InitLogin /\ [][NextLogin]_vars

\* The first answer asks for a login, stated on the response itself.
AsksForLogin(r) ==
    \/ r.status = 401 \/ r.status = 403
    \/ r.status = 302 /\ r.loc_login
    \/ r.status = 200 /\ r.body_login

\* C6 as stated: a call sends once; exactly when the first response asks for a
\* login it logs in once and sends once more, on the new session and (POST)
\* with the new CSRF token in form field and header, and returns that second
\* response whatever it is; never more than two sends and one login per call;
\* and every call made after the cookie was dropped goes through one login.
C6_Original ==
    /\ Len(l_sends) <= 2 /\ l_logins <= 1
    /\ pc_l = "returned" =>
         /\ AsksForLogin(l_first) <=> (l_logins = 1)
         /\ Len(l_sends) = 1 + l_logins
         /\ l_logins = 0 => l_ret = l_first
         /\ l_logins = 1 =>
              /\ l_sends[2].session = l_sends[1].session + 1
              /\ l_sends[2].session = ctx_session
              /\ l_sends[2].method = l_sends[1].method
              /\ l_method = "POST" =>
                   /\ l_sends[2].form_csrf = ctx_csrf
                   /\ l_sends[2].header_csrf = ctx_csrf
                   /\ l_sends[2].form_csrf # l_sends[1].form_csrf
         /\ dropped => l_logins = 1
    /\ pc_l = "raised" => (Len(l_sends) = 1 /\ l_logins = 1)

\* C6: a call sends once; exactly when the first response asks for a login it
\* logs in once and sends once more, on the new session and (POST) with the new
\* CSRF token in form field and header, and returns that second response
\* whatever it is; never more than two sends and one login per call; a call
\* made after the cookie was dropped goes through one login when the server
\* answers the cookie-less request by asking for a login, and otherwise
\* returns that first answer after one send and no login.
C6_OneReloginOneRetry ==
    /\ Len(l_sends) <= 2 /\ l_logins <= 1
    /\ pc_l = "returned" =>
         /\ AsksForLogin(l_first) <=> (l_logins = 1)
         /\ Len(l_sends) = 1 + l_logins
         /\ l_logins = 0 => l_ret = l_first
         /\ l_logins = 1 =>
              /\ l_sends[2].session = l_sends[1].session + 1
              /\ l_sends[2].session = ctx_session
              /\ l_sends[2].method = l_sends[1].method
              /\ l_method = "POST" =>
                   /\ l_sends[2].form_csrf = ctx_csrf
                   /\ l_sends[2].header_csrf = ctx_csrf
                   /\ l_sends[2].form_csrf # l_sends[1].form_csrf
         /\ dropped /\ AsksForLogin(l_first) =>
              l_logins = 1 /\ Len(l_sends) = 2
         /\ dropped /\ ~AsksForLogin(l_first) =>
              l_logins = 0 /\ Len(l_sends) = 1 /\ l_ret = l_first
    /\ pc_l = "raised" => (Len(l_sends) = 1 /\ l_logins = 1)

\* C6 witness: a POST made after the cookie was dropped came back from its
\* second send, after one login, with a page that again asks for a login.
C6_Witness ==
    /\ pc_l = "returned" /\ dropped /\ l_method = "POST"
    /\ Len(l_sends) = 2 /\ l_logins = 1
    /\ l_first.status = 200 /\ l_first.body_login
    /\ _should_relogin(l_ret)

-----------------------------------------------------------------------------
(* livereviewbot: check_permissions, webhook_exists, install_webhook *)

notHookVars == <<diffVars, resetVars, appVars, loginVars, gitlabVars, githubVars, restVars>>

\* Runs of install_webhook in one behaviour.
MaxRuns == 3

\* access_level >= 40: Maintainer
MaintainerLevel == 40

PUBLIC_ENDPOINT == "PUBLIC_ENDPOINT"

\* GitLab's access levels; 0 stands for an absent project_access/group_access.
AccessLevels == {0, 10, 20, 30, 40, 50}

\* access_level as check_permissions computes it from the two entries
EffectiveAccess(pa, ga) ==
    LET fromProject == IF pa # 0 THEN (IF pa > 0 THEN pa ELSE 0) ELSE 0
    IN  IF ga # 0 /\ ga > fromProject THEN ga ELSE fromProject

\* check_permissions() when every request succeeds
check_permissions(pa, ga) == EffectiveAccess(pa, ga) >= MaintainerLevel

\* webhook_exists that finds nothing
webhook_exists_blind(hs, url) == 0

\* webhook_exists(client, project_id, url): the id of the first hook of the
\* list with that url (GitLab lists hooks by id), None (0) when there is none
webhook_exists(hs, url) ==
    LET ids == {h.id : h \in {x \in hs : x.url = url}}
    IN  IF ids = {} THEN 0 ELSE CHOOSE i \in ids : \A j \in ids : i <= j

InitHook ==
    /\ IdleRest
    /\ IdleDiff /\ IdleReset /\ IdleApp /\ IdleLogin /\ IdleGitlab /\ IdleGithub
    /\ \E other \in BOOLEAN :
         /\ hooks = IF other THEN {[id |-> 1, url |-> "other", puts |-> 0]} ELSE {}
         /\ next_id = IF other THEN 2 ELSE 1
    /\ project_access \in AccessLevels
    /\ group_access \in AccessLevels
    /\ h_log = << >>

\* install_webhook: check_permissions() is False (the level is too low, or one
\* of its requests raised): nothing else is requested
InstallDenied ==
    /\ Len(h_log) < MaxRuns
    /\ \E raised \in BOOLEAN :
         /\ raised \/ ~check_permissions(project_access, group_access)
         /\ h_log' = Append(h_log, [op |-> "denied", id |-> 0])
    /\ UNCHANGED <<hooks, next_id, project_access, group_access>>
    /\ UNCHANGED notHookVars

\* install_webhook with permission, no hook with the url: POST /hooks
InstallCreates ==
    /\ Len(h_log) < MaxRuns
    /\ check_permissions(project_access, group_access)
    /\ webhook_exists(hooks, PUBLIC_ENDPOINT) = 0
    /\ hooks' = hooks \cup {[id |-> next_id, url |-> PUBLIC_ENDPOINT, puts |-> 0]}
    /\ next_id' = next_id + 1
    /\ h_log' = Append(h_log, [op |-> "POST", id |-> next_id])
    /\ UNCHANGED <<project_access, group_access>>
    /\ UNCHANGED notHookVars

\* install_webhook with permission, a hook with the url: PUT /hooks/<id>
InstallUpdates ==
    /\ Len(h_log) < MaxRuns
    /\ check_permissions(project_access, group_access)
    /\ webhook_exists(hooks, PUBLIC_ENDPOINT) # 0
    /\ LET id == webhook_exists(hooks, PUBLIC_ENDPOINT)
       IN  /\ hooks' = {IF h.id = id THEN [h EXCEPT !.puts = 1, !.url = PUBLIC_ENDPOINT]
                        ELSE h : h \in hooks}
           /\ h_log' = Append(h_log, [op |-> "PUT", id |-> id])
    /\ UNCHANGED <<next_id, project_access, group_access>>
    /\ UNCHANGED notHookVars

\* install_webhook with permission, and one of its requests fails:
\* raise_for_status() ends the run with nothing created or updated
InstallRaises ==
    /\ Len(h_log) < MaxRuns
    /\ check_permissions(project_access, group_access)
    /\ h_log' = Append(h_log, [op |-> "error", id |-> 0])
    /\ UNCHANGED <<hooks, next_id, project_access, group_access>>
    /\ UNCHANGED notHookVars

NextHook ==
    \/ InstallDenied
    \/ InstallCreates
    \/ InstallUpdates
    \/ InstallRaises

SpecHook == InitHook /\ [][NextHook]_vars

OurHooks == {h \in hooks : h.url = PUBLIC_ENDPOINT}

Max2(a, b) == IF a >= b THEN a ELSE b

\* C7: the first run that gets through creates one hook with the url (POST),
\* every later one updates that hook by its id (PUT) and none creates another,
\* so the project never has two hooks with the url; with an effective access
\* level (the larger of project and group access) below 40 nothing is created
\* or updated.
C7_InstallIdempotent ==
    /\ Cardinality(OurHooks) <= 1
    /\ Cardinality({k \in 1..Len(h_log) : h_log[k].op = "POST"}) <= 1
    /\ \A k \in 1..Len(h_log) :
         /\ h_log[k].op = "POST" =>
              \A j \in 1..(k - 1) : h_log[j].op \in {"denied", "error"}
         /\ h_log[k].op = "PUT" =>
              \E j \in 1..(k - 1) : h_log[j].op = "POST" /\ h_log[j].id = h_log[k].id
         /\ h_log[k].op \in {"POST", "PUT"} => Max2(project_access, group_access) >= 40
    /\ (\E k \in 1..Len(h_log) : h_log[k].op \in {"POST", "PUT"}) <=> Cardinality(OurHooks) = 1
    /\ Max2(project_access, group_access) < 40 =>
         /\ OurHooks = {}
         /\ \A k \in 1..Len(h_log) : h_log[k].op = "denied"

\* C7 witness: three runs with group access alone giving Maintainer: one POST,
\* then two PUTs on the hook the POST made, and one hook with the url.
C7_Witness ==
    /\ Len(h_log) = 3
    /\ project_access = 30 /\ group_access = 40
    /\ h_log[1].op = "POST" /\ h_log[2].op = "PUT" /\ h_log[3].op = "PUT"
    /\ h_log[3].id = h_log[1].id
    /\ Cardinality(OurHooks) = 1

-----------------------------------------------------------------------------
(* Text: a Python str is the sequence of its characters. *)

UpperChars == <<"A", "B", "C", "D", "E", "F", "G", "H", "I", "J", "K", "L", "M", "N", "O", "P", "Q", "R", "S", "T", "U", "V", "W", "X", "Y", "Z">>
LowerChars == <<"a", "b", "c", "d", "e", "f", "g", "h", "i", "j", "k", "l", "m", "n", "o", "p", "q", "r", "s", "t", "u", "v", "w", "x", "y", "z">>

\* str.lower(), one character
LowerChar(c) ==
    IF \E i \in 1..Len(UpperChars) : UpperChars[i] = c
    THEN LowerChars[CHOOSE i \in 1..Len(UpperChars) : UpperChars[i] = c]
    ELSE c

\* str.lower()
Lower(str) == [i \in 1..Len(str) |-> LowerChar(str[i])]

\* needle in hay
Contains(hay, needle) ==
    \E i \in 0..(Len(hay) - Len(needle)) : SubSeq(hay, i + 1, i + Len(needle)) = needle

-----------------------------------------------------------------------------
(* livereviewbot: gitlab_hook and process_bot_mention *)

notGitlabVars == <<diffVars, resetVars, appVars, loginVars, hookVars, githubVars, restVars>>

WEBHOOK_SECRET == "super-secret-string"

BOT_MENTION == <<"@", "l", "i", "v", "e", "r", "e", "v", "i", "e", "w", "b", "o", "t">>

\* X-Gitlab-Token as request.headers.get gives it ("absent": None)
Tokens == {"absent", "", "wrong", "SUPER-SECRET-STRING", WEBHOOK_SECRET}

\* X-Gitlab-Event values
KindNoteHook == <<"N", "o", "t", "e", " ", "H", "o", "o", "k">>
KindNoteLower == <<"n", "o", "t", "e", " ", "h", "o", "o", "k">>
KindNoteUpper == <<"N", "O", "T", "E", " ", "H", "O", "O", "K">>
KindNoteHooks == <<"N", "o", "t", "e", " ", "H", "o", "o", "k", "s">>
KindMergeRequestHook == <<"M", "e", "r", "g", "e", " ", "R", "e", "q", "u", "e", "s", "t", " ", "H", "o", "o", "k">>
KindMergeRequestLower == <<"m", "e", "r", "g", "e", " ", "r", "e", "q", "u", "e", "s", "t", " ", "h", "o", "o", "k">>
KindMergeRequestUpper == <<"M", "E", "R", "G", "E", " ", "R", "E", "Q", "U", "E", "S", "T", " ", "H", "O", "O", "K">>
KindUnknown == <<"u", "n", "k", "n", "o", "w", "n">>
Kinds == {KindNoteHook, KindNoteLower, KindNoteUpper, KindNoteHooks,
          KindMergeRequestHook, KindMergeRequestUpper, KindUnknown}

\* Note texts and descriptions
TextEmpty == << >>
TextMention == <<"@", "l", "i", "v", "e", "r", "e", "v", "i", "e", "w", "b", "o", "t">>
TextMentionMixed == <<"H", "i", " ", "@", "L", "i", "v", "e", "R", "e", "v", "i", "e", "w", "B", "o", "t">>
TextNameOnly == <<"l", "i", "v", "e", "r", "e", "v", "i", "e", "w", "b", "o", "t">>
TextMentionCut == <<"@", "l", "i", "v", "e", "r", "e", "v", "i", "e", "w", "b", "o">>
TextT == <<"t">>
NoteTexts == {TextEmpty, TextMention, TextMentionMixed, TextNameOnly, TextMentionCut, TextT}
Descriptions == {TextEmpty, TextMentionMixed, TextT}

\* Reviewer usernames
UserAlice == <<"a", "l", "i", "c", "e">>
UserBot == <<"l", "i", "v", "e", "r", "e", "v", "i", "e", "w", "b", "o", "t">>
UserBotMixed == <<"X", "-", "L", "i", "v", "e", "R", "e", "v", "i", "e", "w">>
UserNearMiss == <<"l", "i", "v", "e", "r", "e", "v", "i", "e">>

\* payload["changes"]["reviewers"]: form "absent" (no such key), "empty" ({}),
\* or "dict" with the usernames of its previous and current lists
ReviewersChange(form, previous, current) ==
    [form |-> form, previous |-> previous, current |-> current]

ReviewersChanges ==
    {ReviewersChange("absent", << >>, << >>),
     ReviewersChange("empty", << >>, << >>),
     ReviewersChange("dict", << >>, << >>),
     ReviewersChange("dict", <<UserBotMixed>>, << >>),
     ReviewersChange("dict", <<UserAlice>>, <<UserAlice, UserBot>>),
     ReviewersChange("dict", <<UserAlice>>, <<UserNearMiss>>)}

\* The payload fields the two functions read.  merge_request: "absent", "empty"
\* ({}), "full"; noteable_type and event_type: "absent" when the key is missing.
Payloads ==
    [event_type : {"note", "Note", "merge_request", "absent"},
     note : NoteTexts,
     description : Descriptions,
     merge_request : {"absent", "empty", "full"},
     noteable_type : {"MergeRequest", "Issue", "absent"},
     reviewers : ReviewersChanges]

\* Python None, and a dict that is falsy because it is empty
None == << >>

\* process_bot_mention that tests the note text alone
process_bot_mention_note_only(p, kind) ==
    IF Lower(kind) # KindNoteLower THEN None
    ELSE IF p.event_type # "note" THEN None
    ELSE IF ~Contains(Lower(p.note), Lower(BOT_MENTION)) THEN None
    ELSE IF p.merge_request = "full" /\ p.noteable_type = "MergeRequest"
         THEN [event_type |-> "livereview_mention", note_text |-> p.note,
               note_description |-> p.description, merge_request |-> "full"]
         ELSE [event_type |-> "livereview_mention", note_text |-> p.note,
               note_description |-> p.description]

\* process_bot_mention(payload, kind): None, or mention_info (the keys that
\* depend on the payload)
process_bot_mention(p, kind) ==
    IF Lower(kind) # KindNoteLower THEN None
    ELSE IF p.event_type # "note" THEN None
    ELSE LET text_to_check == Lower(p.note \o <<" ">> \o p.description)
             bot_mention_lower == Lower(BOT_MENTION)
         IN  IF ~Contains(text_to_check, bot_mention_lower) THEN None
             ELSE IF p.merge_request = "full" /\ p.noteable_type = "MergeRequest"
                  THEN [event_type |-> "livereview_mention", note_text |-> p.note,
                        note_description |-> p.description, merge_request |-> "full"]
                  ELSE [event_type |-> "livereview_mention", note_text |-> p.note,
                        note_description |-> p.description]

BOT_NAME == <<"l", "i", "v", "e", "r", "e", "v", "i", "e", "w">>

\* The reviewers of a list whose username holds BOT_NAME, in list order
RECURSIVE BotReviewers(_)
BotReviewers(reviewers) ==
    IF reviewers = << >> THEN << >>
    ELSE (IF Contains(Lower(Head(reviewers)), Lower(BOT_NAME)) THEN <<Head(reviewers)>> ELSE << >>)
         \o BotReviewers(Tail(reviewers))

\* process_reviewer_change that looks at the current reviewers alone
process_reviewer_change_current_only(p, kind) ==
    IF Lower(kind) # KindMergeRequestLower THEN None
    ELSE IF p.event_type # "merge_request" THEN None
    ELSE IF p.reviewers.form # "dict" THEN None
    ELSE LET current_bot_reviewers == BotReviewers(p.reviewers.current)
         IN  IF current_bot_reviewers = << >> THEN None
             ELSE [event_type |-> "reviewer_change",
                   current_bot_reviewers |-> current_bot_reviewers,
                   previous_bot_reviewers |-> << >>,
                   is_bot_assigned |-> TRUE,
                   is_bot_removed |-> FALSE]

\* process_reviewer_change(payload, kind): None, or reviewer_change_info (the
\* keys computed from the reviewers)
process_reviewer_change(p, kind) ==
    IF Lower(kind) # KindMergeRequestLower THEN None
    ELSE IF p.event_type # "merge_request" THEN None
    ELSE IF p.reviewers.form # "dict" THEN None
    ELSE LET previous_bot_reviewers == BotReviewers(p.reviewers.previous)
             current_bot_reviewers == BotReviewers(p.reviewers.current)
         IN  IF previous_bot_reviewers = << >> /\ current_bot_reviewers = << >> THEN None
             ELSE [event_type |-> "reviewer_change",
                   current_bot_reviewers |-> current_bot_reviewers,
                   previous_bot_reviewers |-> previous_bot_reviewers,
                   is_bot_assigned |-> Len(current_bot_reviewers) > 0,
                   is_bot_removed |-> Len(previous_bot_reviewers) > 0
                                      /\ Len(current_bot_reviewers) = 0]

\* token != WEBHOOK_SECRET, with a missing header let through
TokenRejectedIfPresent(token) == token # "absent" /\ token # WEBHOOK_SECRET

\* if token != WEBHOOK_SECRET: abort(401)
TokenRejected(token) == token # WEBHOOK_SECRET

InitGitlab ==
    /\ IdleRest
    /\ IdleDiff /\ IdleReset /\ IdleApp /\ IdleLogin /\ IdleHook /\ IdleGithub
    /\ g_req \in [token : Tokens, kind : Kinds, body_ok : BOOLEAN, payload : Payloads]
    /\ g_status = 0
    /\ g_parsed = FALSE
    /\ g_called = << >>
    /\ g_mention = None
    /\ g_reviewer = None
    /\ pc_g = "recv"

\* The token test at the head of gitlab_hook
CheckToken ==
    /\ pc_g = "recv"
    /\ IF TokenRejected(g_req.token)
       THEN g_status' = 401 /\ pc_g' = "done"
       ELSE g_status' = g_status /\ pc_g' = "parse"
    /\ UNCHANGED <<g_req, g_parsed, g_called, g_mention, g_reviewer>>
    /\ UNCHANGED notGitlabVars

\* request.get_json(force=True, silent=False); abort(400) when it raises
ParseJson ==
    /\ pc_g = "parse"
    /\ g_parsed' = TRUE
    /\ IF g_req.body_ok
       THEN g_status' = g_status /\ pc_g' = "mention"
       ELSE g_status' = 400 /\ pc_g' = "done"
    /\ UNCHANGED <<g_req, g_called, g_mention, g_reviewer>>
    /\ UNCHANGED notGitlabVars

\* mention_info = process_bot_mention(payload, kind)
CallMention ==
    /\ pc_g = "mention"
    /\ g_called' = Append(g_called, "process_bot_mention")
    /\ g_mention' = process_bot_mention(g_req.payload, g_req.kind)
    /\ pc_g' = "reviewer"
    /\ UNCHANGED <<g_req, g_status, g_parsed, g_reviewer>>
    /\ UNCHANGED notGitlabVars

\* reviewer_change_info = process_reviewer_change(payload, kind); return ok
CallReviewer ==
    /\ pc_g = "reviewer"
    /\ g_called' = Append(g_called, "process_reviewer_change")
    /\ g_reviewer' = process_reviewer_change(g_req.payload, g_req.kind)
    /\ g_status' = 200
    /\ pc_g' = "done"
    /\ UNCHANGED <<g_req, g_parsed, g_mention>>
    /\ UNCHANGED notGitlabVars

NextGitlab ==
    \/ CheckToken
    \/ ParseJson
    \/ CallMention
    \/ CallReviewer

SpecGitlab == InitGitlab /\ [][NextGitlab]_vars

\* C8: a request whose X-Gitlab-Token is absent or differs from WEBHOOK_SECRET
\* is answered 401 with the payload never parsed, and the two handlers run only
\* for requests that presented the secret.
C8_TokenGate ==
    /\ g_req.token # "super-secret-string" =>
         /\ ~g_parsed
         /\ g_called = << >>
         /\ pc_g = "done" => g_status = 401
    /\ g_status = 401 => (~g_parsed /\ g_called = << >>)
    /\ (g_parsed \/ g_called # << >>) => g_req.token = "super-secret-string"

\* C8 witness: a request without the header was answered 401, unparsed, while
\* its payload would have been a mention.
C8_Witness ==
    /\ pc_g = "done" /\ g_req.token = "absent" /\ g_status = 401
    /\ ~g_parsed /\ g_called = << >>
    /\ g_req.body_ok /\ g_req.kind = KindNoteHook
    /\ g_req.payload.event_type = "note" /\ g_req.payload.note = TextMention

NoteHookSpellings == {KindNoteHook, KindNoteLower, KindNoteUpper}

MentionSpellings == {TextMention, TextMentionMixed}

\* C10: process_bot_mention returns a record exactly when kind is 'note hook'
\* in any case, event_type is 'note' and the mention occurs, in any case, in the
\* note text or in the description; the record has a merge_request entry
\* exactly when the payload's merge_request is non-empty and noteable_type is
\* 'MergeRequest'.
C10_MentionIff ==
    "process_bot_mention" \in {g_called[k] : k \in 1..Len(g_called)} =>
        LET p == g_req.payload
            mentioned == p.note \in MentionSpellings \/ p.description \in MentionSpellings
        IN  /\ g_mention # None <=>
                  /\ g_req.kind \in NoteHookSpellings
                  /\ p.event_type = "note"
                  /\ mentioned
            /\ g_mention # None =>
                  /\ "merge_request" \in DOMAIN g_mention <=>
                        (p.merge_request = "full" /\ p.noteable_type = "MergeRequest")
                  /\ g_mention.note_text = p.note

\* C10 witness: the mention stands in the description only, in mixed case, the
\* kind is upper case, and the record carries no merge_request entry because
\* the payload's merge_request is empty.
C10_Witness ==
    /\ pc_g = "done" /\ g_mention # None
    /\ g_req.kind = KindNoteUpper
    /\ g_req.payload.note = TextMentionCut
    /\ g_req.payload.description = TextMentionMixed
    /\ g_req.payload.merge_request = "empty"
    /\ g_req.payload.noteable_type = "MergeRequest"
    /\ "merge_request" \notin DOMAIN g_mention

MergeHookSpellings == {KindMergeRequestHook, KindMergeRequestUpper}

BotUsers == {UserBot, UserBotMixed}

\* Some reviewer of the list is a bot, stated on the usernames themselves
HasBot(reviewers) == \E k \in 1..Len(reviewers) : reviewers[k] \in BotUsers

\* C11: process_reviewer_change returns a record exactly when kind is 'merge
\* request hook' in any case, event_type is 'merge_request', changes.reviewers
\* is present and a reviewer of its previous or current list has a username
\* holding BOT_NAME in any case; a bot in the previous list alone is detected.
C11_ReviewerChangeIff ==
    "process_reviewer_change" \in {g_called[k] : k \in 1..Len(g_called)} =>
        LET p == g_req.payload
        IN  /\ g_reviewer # None <=>
                  /\ g_req.kind \in MergeHookSpellings
                  /\ p.event_type = "merge_request"
                  /\ p.reviewers.form # "absent"
                  /\ HasBot(p.reviewers.previous) \/ HasBot(p.reviewers.current)
            /\ g_reviewer # None =>
                  /\ g_reviewer.is_bot_assigned <=> HasBot(p.reviewers.current)
                  /\ g_reviewer.is_bot_removed <=>
                        (HasBot(p.reviewers.previous) /\ ~HasBot(p.reviewers.current))

\* C11 witness: the bot stands in the previous list only, in mixed case, the
\* kind is upper case, and a record came back that reports the removal.
C11_Witness ==
    /\ pc_g = "done" /\ g_reviewer # None
    /\ g_req.kind = KindMergeRequestUpper
    /\ g_req.payload.reviewers.previous = <<UserBotMixed>>
    /\ g_req.payload.reviewers.current = << >>
    /\ g_reviewer.is_bot_removed /\ ~g_reviewer.is_bot_assigned

-----------------------------------------------------------------------------
(* gh_cli.WebhookListener: verify_signature and process_webhook *)

notGithubVars == <<diffVars, resetVars, appVars, loginVars, hookVars, gitlabVars, restVars>>

\* self.secret: "none" is None, "" the empty string
Secrets == {"none", "", "s1"}

Bodies == {"b1", "b2"}

\* hmac.new(key, msg, sha256).hexdigest(): one digest per key and message
HmacSha256(key, msg) == <<"hmac", key, msg>>

\* X-Hub-Signature-256 as request.headers.get gives it:
\*   form "absent"   the header is missing (None)
\*   form "empty"    the header is the empty string
\*   form "sha256"   "sha256=" followed by the digest of (key, msg)
\*   form "bare"     the digest of (key, msg) without the "sha256=" prefix
\*   form "nonascii" text with a character outside ASCII
SignatureHeaders ==
    {[form |-> f, key |-> "", msg |-> ""] : f \in {"absent", "empty", "nonascii"}}
    \cup [form : {"sha256", "bare"}, key : {"s1", "s2"}, msg : Bodies]

\* hmac.compare_digest(a, b) on two str: TypeError when one holds a character
\* outside ASCII, else whether they are equal
\* verify_signature(payload_body, signature_header): "True", "False", or
\* "TypeError" when compare_digest raises
verify_signature(secret, payload_body, sig) ==
    IF secret \in {"none", ""} THEN "True"
    ELSE IF sig.form \in {"absent", "empty"} THEN "False"
    ELSE IF sig.form = "nonascii" THEN "TypeError"
    ELSE IF sig.form = "sha256" /\ HmacSha256(sig.key, sig.msg) = HmacSha256(secret, payload_body)
         THEN "True"
         ELSE "False"

\* X-GitHub-Event: the six events process_webhook has a handler for, and one
\* it has none for
Events == {"push", "pull_request", "pull_request_review", "pull_request_review_comment",
           "issue_comment", "issues", "unknown"}

\* What request.get_json() gives: a JSON object that is not empty ("dict"), a
\* non-empty array ("list"), a non-empty string ("string"), a number other than
\* 0 or true ("number"), a value that "not payload" rejects (null, false, 0,
\* "", [], {}: "empty"), or it raises
JsonKinds == {"dict", "list", "string", "number", "empty", "raises"}

\* The keys process_webhook and the handlers look up in the payload
PayloadKeys == {"repository", "action", "commits", "pusher", "head_commit",
               "pull_request", "review", "comment", "issue"}

\* The keys the handler of an event looks up
HandlerKeys(event) ==
    CASE event = "push" -> {"commits", "pusher", "head_commit"}
      [] event = "pull_request" -> {"pull_request"}
      [] event = "pull_request_review" -> {"review", "pull_request"}
      [] event = "pull_request_review_comment" -> {"comment", "pull_request"}
      [] event = "issue_comment" -> {"comment", "issue"}
      [] event = "issues" -> {"issue"}
      [] OTHER -> {}

\* The keys a request of that event has looked up when its handler returns
KeysRead(event) == {"repository", "action"} \cup HandlerKeys(event)

\* An object whose "user" is there and is no object
UserNoObject == "object, user no object"

\* An object one of whose "id", "message" and "body" is there and cannot be
\* sliced (null, a number, true, false, an object)
TextUnsliceable == "object, text unsliceable"

\* The value of a key of a JSON object, as far as the code tells values apart:
\*   "absent"     the key is not there
\*   "present"    (action) any value: it is printed as it is
\*   "sized"      (commits) a string, an array or an object: len() takes it
\*   "unsized"    (commits) null, true, false or a number: len() raises
\*   "falsy"      (head_commit) null, false, 0, "", [] or {}: skipped
\*   "no object"  a value that is no object and so has no .get: null, true,
\*                false, a number, a string, an array (of head_commit: those
\*                of them that are not falsy)
\*   "object"     an object whose "user" is absent or an object and whose
\*                "id", "message" and "body" are absent, strings or arrays
\* and the two objects above
ValueClasses == {"absent", "present", "sized", "unsized", "falsy", "no object", "object",
                 UserNoObject, TextUnsliceable}

\* The values told apart for one key: "user" is read in pull_request, review,
\* comment and issue; a slice is taken in head_commit and comment
ClassesOf(key) ==
    CASE key = "action" -> {"absent", "present"}
      [] key = "commits" -> {"absent", "sized", "unsized"}
      [] key = "head_commit" -> {"absent", "falsy", "no object", "object", TextUnsliceable}
      [] key = "comment" -> {"absent", "no object", "object", UserNoObject, TextUnsliceable}
      [] key \in {"pull_request", "review", "issue"} ->
           {"absent", "no object", "object", UserNoObject}
      [] OTHER -> {"absent", "no object", "object"}

NoMembers == [k \in PayloadKeys |-> "absent"]

\* The JSON objects of a request of that event: a value for every key the
\* request reads; the other keys, which nothing but print_payload reads, are
\* left out
ObjectMembers(event) ==
    {[k \in PayloadKeys |-> IF k \in KeysRead(event) THEN f[k] ELSE "absent"] :
        f \in {g \in [KeysRead(event) -> ValueClasses] :
                 \A k \in KeysRead(event) : g[k] \in ClassesOf(k)}}

\* The payloads of a request of that event.  holds: the keys read for which
\* "key in payload" is true of an array (it has the key as an element) or of
\* a string (it has the key as a substring)
WebhookPayloads(event) ==
    {[json |-> "dict", members |-> m, holds |-> {}] : m \in ObjectMembers(event)}
    \cup {[json |-> j, members |-> NoMembers, holds |-> h] :
             j \in {"list", "string"}, h \in SUBSET KeysRead(event)}
    \cup {[json |-> j, members |-> NoMembers, holds |-> {}] :
             j \in {"number", "empty", "raises"}}

Requests ==
    UNION {{[sig |-> s, body |-> b, event |-> e,
             json |-> p.json, members |-> p.members, holds |-> p.holds] :
               s \in SignatureHeaders, b \in Bodies, p \in WebhookPayloads(e)} :
           e \in Events}

\* The handler process_webhook picks for the event
HandlerOf(event) == IF event = "unknown" THEN "print_payload" ELSE event

\* payload[key].get raises: the value is no object
GetRaises(v) == v = "no object"

\* The prints before the handler raise (no handler has run): on a number at
\* "'repository' in payload"; on an array or string that holds "repository"
\* or "action" at payload['repository'] or payload['action']; on an object
\* at repo.get when "repository" is no object
DescribeRaises(req) ==
    CASE req.json = "number" -> TRUE
      [] req.json \in {"list", "string"} -> req.holds \cap {"repository", "action"} # {}
      [] OTHER -> GetRaises(req.members["repository"])

\* The handler of an object raises:
\*   push: len(commits) of an unsized value, pusher.get on no object,
\*     head_commit not falsy and no object or with an unsliceable id or message
\*   pull_request, issues: .get on no object, user.get on no object
\*   pull_request_review: review as before; pull_request.get on no object
\*   pull_request_review_comment, issue_comment: comment as review and
\*     besides body[:100] of an unsliceable body; pull_request.get or
\*     issue.get on no object
\*   print_payload: never
ObjectHandlerRaises(event, m) ==
    CASE event = "push" ->
           \/ m["commits"] = "unsized"
           \/ GetRaises(m["pusher"])
           \/ m["head_commit"] \in {"no object", TextUnsliceable}
      [] event = "pull_request" ->
           GetRaises(m["pull_request"]) \/ m["pull_request"] = UserNoObject
      [] event = "pull_request_review" ->
           \/ GetRaises(m["review"]) \/ m["review"] = UserNoObject
           \/ GetRaises(m["pull_request"])
      [] event = "pull_request_review_comment" ->
           \/ GetRaises(m["comment"]) \/ m["comment"] \in {UserNoObject, TextUnsliceable}
           \/ GetRaises(m["pull_request"])
      [] event = "issue_comment" ->
           \/ GetRaises(m["comment"]) \/ m["comment"] \in {UserNoObject, TextUnsliceable}
           \/ GetRaises(m["issue"])
      [] event = "issues" ->
           GetRaises(m["issue"]) \/ m["issue"] = UserNoObject
      [] OTHER -> FALSE

\* The handler raises.  On an array or a string handle_push_event raises at
\* payload.get and print_payload at payload.items, and another handler at
\* payload[key] for a key of its own that the payload holds.
HandlerRaises(req) ==
    IF req.json = "dict" THEN ObjectHandlerRaises(req.event, req.members)
    ELSE \/ req.event \in {"push", "unknown"}
         \/ req.holds \cap HandlerKeys(req.event) # {}

InitGithub ==
    /\ IdleRest
    /\ IdleDiff /\ IdleReset /\ IdleApp /\ IdleLogin /\ IdleHook /\ IdleGitlab
    /\ w_secret \in Secrets
    /\ w_req \in Requests
    /\ w_status = 0
    /\ w_parsed = FALSE
    /\ w_dispatched = "none"
    /\ pc_w = "recv"

\* request.get_data(), the header, verify_signature; 401 when it is False, and
\* the except block's 500 when it raises
VerifyRequest ==
    /\ pc_w = "recv"
    /\ LET v == verify_signature(w_secret, w_req.body, w_req.sig)
       IN  CASE v = "True" -> w_status' = w_status /\ pc_w' = "parse" /\ w_parsed' = w_parsed
             [] v = "False" -> w_status' = 401 /\ pc_w' = "done" /\ w_parsed' = w_parsed
             [] v = "TypeError" -> w_status' = 500 /\ pc_w' = "done" /\ w_parsed' = w_parsed
    /\ UNCHANGED <<w_secret, w_req, w_dispatched>>
    /\ UNCHANGED notGithubVars

\* payload = request.get_json(); 400 when it is empty, 500 when it raises
ParsePayload ==
    /\ pc_w = "parse"
    /\ w_parsed' = TRUE
    /\ CASE w_req.json \in {"dict", "list", "string", "number"} ->
                w_status' = w_status /\ pc_w' = "dispatch"
         [] w_req.json = "empty" -> w_status' = 400 /\ pc_w' = "done"
         [] w_req.json = "raises" -> w_status' = 500 /\ pc_w' = "done"
    /\ UNCHANGED <<w_secret, w_req, w_dispatched>>
    /\ UNCHANGED notGithubVars

\* The prints of event, repository and action, then the handler chosen by
\* X-GitHub-Event; 200 when it returns, and the except block's 500 when the
\* prints raise (no handler has run) or the handler raises
Dispatch ==
    /\ pc_w = "dispatch"
    /\ IF DescribeRaises(w_req)
       THEN w_dispatched' = w_dispatched /\ w_status' = 500
       ELSE /\ w_dispatched' = HandlerOf(w_req.event)
            /\ w_status' = IF HandlerRaises(w_req) THEN 500 ELSE 200
    /\ pc_w' = "done"
    /\ UNCHANGED <<w_secret, w_req, w_parsed>>
    /\ UNCHANGED notGithubVars

NextGithub ==
    \/ VerifyRequest
    \/ ParsePayload
    \/ Dispatch

SpecGithub == InitGithub /\ [][NextGithub]_vars

\* The header is "sha256=" followed by the HMAC-SHA256 of the raw body under
\* the secret.
SignatureValid ==
    /\ w_req.sig.form = "sha256"
    /\ w_req.sig.key = w_secret
    /\ w_req.sig.msg = w_req.body

\* C9: with a secret configured, a request whose X-Hub-Signature-256 is not the
\* valid signature of its body is answered 401, its JSON is never parsed and no
\* event handler runs; with no secret every request passes verification.
C9_SignatureGate ==
    /\ (w_secret \notin {"none", ""} /\ ~SignatureValid) =>
         /\ ~w_parsed
         /\ w_dispatched = "none"
         /\ pc_w = "done" => w_status = 401
    /\ w_secret \in {"none", ""} => (w_status # 401 /\ (pc_w \notin {"recv", "parse"} => w_parsed))

-----------------------------------------------------------------------------
(* lrops.LiveReviewOps: cmd_version, cmd_bump, create_tag, cmd_build,        *)
(* build_binary, cmd_docker and build_docker_image.  A command is the text   *)
(* _run_command was given; every command may fail, which _run_command turns  *)
(* into GitError.                                                            *)

notOpsVars == <<diffVars, resetVars, appVars, loginVars, hookVars, gitlabVars, githubVars,
               demoVars, notesVars, pagesVars>>

GitStatus == "git status --porcelain"
GitTagList == "git tag -l"
GitRevParseHead == "git rev-parse HEAD"
GitDescribeExact == "git describe --exact-match"
GitDescribeAlways == "git describe --always"
GitVerifyTag == "git rev-parse --verify"
GitTagCreate == "git tag -a"
GitPushTag == "git push origin"
GoBuild == "go build"
BinaryVersion == "livereview --version"
DockerBuildLoad == "docker buildx build --load"
DockerBuildPush == "docker buildx build --push"
DockerTag == "docker tag"
DockerPush == "docker push"
DockerPushLatest == "docker push latest"
ManifestCreate == "docker manifest create"
ManifestAnnotate == "docker manifest annotate"
ManifestPush == "docker manifest push"

\* _run_command reports a command that exited non-zero and raises GitError
CommandFailed == "COMMAND FAILED"

\* Commands that only read the repository
ReadOnlyCommands == {GitStatus, GitTagList, GitRevParseHead, GitDescribeExact,
                     GitDescribeAlways, GitVerifyTag}

\* The values --architectures accepts (choices of the build and docker parsers)
ArchChoices == {"amd64", "arm64", "arm/v7"}

\* Values given to --architectures in one run
MaxArchs == 3

\* args.architectures: None (here the empty list) without the option, else the
\* one or more values given, in order, repeats included
ArchitectureLists == UNION {[1..n -> ArchChoices] : n \in 0..MaxArchs}

\* The parsed arguments.  tag says that --tag was given; latest_none and
\* multiarch_none say that args.latest and args.multiarch are None, the
\* default of the docker parser alone.  The version and bump parsers have no
\* --architectures.
VersionArgs ==
    [command : {"version"}, allow_dirty : {FALSE}, dry_run : {FALSE}, no_push : {FALSE},
     interactive : {FALSE}, docker : {FALSE}, push : {FALSE}, multiarch : {FALSE},
     latest : {FALSE}, tag : {FALSE}, latest_none : {FALSE}, multiarch_none : {FALSE},
     architectures : {<< >>}]

BumpArgs ==
    [command : {"bump"}, allow_dirty : BOOLEAN, dry_run : BOOLEAN, no_push : BOOLEAN,
     interactive : BOOLEAN, docker : {FALSE}, push : {FALSE}, multiarch : {FALSE},
     latest : {FALSE}, tag : {FALSE}, latest_none : {FALSE}, multiarch_none : {FALSE},
     architectures : {<< >>}]

BuildArgs ==
    [command : {"build"}, allow_dirty : {FALSE}, dry_run : BOOLEAN, no_push : {FALSE},
     interactive : {FALSE}, docker : BOOLEAN, push : BOOLEAN, multiarch : BOOLEAN,
     latest : BOOLEAN, tag : {FALSE}, latest_none : {FALSE}, multiarch_none : {FALSE},
     architectures : ArchitectureLists]

DockerArgs ==
    {a \in [command : {"docker"}, allow_dirty : {FALSE}, dry_run : BOOLEAN, no_push : {FALSE},
            interactive : {FALSE}, docker : {FALSE}, push : BOOLEAN, multiarch : BOOLEAN,
            latest : BOOLEAN, tag : BOOLEAN, latest_none : BOOLEAN,
            multiarch_none : BOOLEAN, architectures : ArchitectureLists] :
        /\ a.latest_none => ~a.latest
        /\ a.multiarch_none => ~a.multiarch}

\* get_current_version_info(): the commands it runs and how it ends: it
\* returns, raises GitError, or raises ValueError at int(parts[1]) when git
\* describe printed a 'v' name whose second dash-separated part is no number
\* (HEAD some commits after the tag v1.2.3-rc1: "v1.2.3-rc1-5-gabc123")
VersionInfoRuns ==
    {[cmds |-> <<GitRevParseHead, CommandFailed>>, result |-> "GitError"],
     [cmds |-> <<GitRevParseHead, GitStatus, CommandFailed>>, result |-> "GitError"],
     [cmds |-> <<GitRevParseHead, GitStatus, GitDescribeExact>>, result |-> "returns"],
     [cmds |-> <<GitRevParseHead, GitStatus, GitDescribeExact, CommandFailed,
                 GitDescribeAlways>>, result |-> "returns"],
     [cmds |-> <<GitRevParseHead, GitStatus, GitDescribeExact, CommandFailed,
                 GitDescribeAlways>>, result |-> "ValueError"],
     [cmds |-> <<GitRevParseHead, GitStatus, GitDescribeExact, CommandFailed,
                 GitDescribeAlways, CommandFailed>>, result |-> "returns"]}

\* What a command returns when get_current_version_info raised: 1 for the
\* GitError its "except (GitError, VersionError)" catches; the ValueError is
\* caught by no command and not by main
VersionFailure(run) == IF run.result = "GitError" THEN "1" ELSE "ValueError"

\* build_docker_image that builds whatever dry_run says
DockerCommandsAnyway(a) ==
    <<DockerBuildLoad>> \o (IF a.latest THEN <<DockerTag>> ELSE << >>)

\* build_docker_image: if not architectures: architectures = ['amd64', 'arm64']
Architectures(a) ==
    IF a.architectures = << >> THEN <<"amd64", "arm64">> ELSE a.architectures

\* _build_multiarch_image: suffix = arch.replace('/', ''), the end of the
\* architecture's tag "<image>:<version>-<suffix>"
ArchSuffix(arch) == IF arch = "arm/v7" THEN "armv7" ELSE arch

\* _build_multiarch_image: arch_tags, one per architecture, each given here
\* by what _create_and_push_manifest reads back from it,
\* tag.split(':')[-1].split('-')[-1]: the suffix
ArchTags(a) == [i \in 1..Len(Architectures(a)) |-> ArchSuffix(Architectures(a)[i])]

\* _create_and_push_manifest: one docker manifest annotate for each tag whose
\* suffix is armv7, amd64 or arm64, in the order of the tags, and none for a
\* tag with another suffix
RECURSIVE AnnotateCommands(_)
AnnotateCommands(tags) ==
    IF tags = << >> THEN << >>
    ELSE (IF Head(tags) = "armv7" \/ Head(tags) \in {"amd64", "arm64"}
          THEN <<ManifestAnnotate>> ELSE << >>)
         \o AnnotateCommands(Tail(tags))

\* _create_and_push_manifest when no command fails
ManifestCommands(tags) == <<ManifestCreate>> \o AnnotateCommands(tags) \o <<ManifestPush>>

\* The docker commands of build_docker_image when none fails: none with
\* dry_run, else those of _build_multiarch_image (one buildx build for all
\* architectures, then the manifest list of the latest tag) or of
\* _build_single_arch_image
DockerCommands(a) ==
    IF a.dry_run THEN << >>
    ELSE IF a.multiarch
    THEN <<IF a.push THEN DockerBuildPush ELSE DockerBuildLoad>>
         \o (IF a.push /\ a.latest THEN ManifestCommands(ArchTags(a)) ELSE << >>)
    ELSE <<DockerBuildLoad>>
         \o (IF a.latest THEN <<DockerTag>> ELSE << >>)
         \o (IF a.push THEN <<DockerPush>> ELSE << >>)
         \o (IF a.push /\ a.latest THEN <<DockerPushLatest>> ELSE << >>)

\* _create_and_push_manifest catches the GitError of its commands
IsManifestCommand(c) == c \in {ManifestCreate, ManifestAnnotate, ManifestPush}

\* create_tag(new_version, push=not args.no_push)
PushWanted(a) == ~a.no_push

InitOps ==
    /\ IdleDiff /\ IdleReset /\ IdleApp /\ IdleLogin /\ IdleHook /\ IdleGitlab /\ IdleGithub
    /\ IdleDemo /\ IdleNotes /\ IdlePages
    /\ o_args \in VersionArgs \cup BumpArgs \cup BuildArgs \cup DockerArgs
    /\ o_env \in [dirty : BOOLEAN, tag_exists : BOOLEAN]
    /\ o_cmds = << >>
    /\ o_ret = "none"
    /\ pc_o = "start"

\* The action ran cmds and goes on at next, or returned r (the exit code, or
\* the exception that left the command)
OpsStep(cmds, next, r) ==
    /\ o_cmds' = o_cmds \o cmds
    /\ pc_o' = next
    /\ o_ret' = r
    /\ UNCHANGED <<o_args, o_env>>
    /\ UNCHANGED notOpsVars

\* cmd_version: get_current_version_info() and the print of the version
CmdVersion ==
    /\ pc_o = "start" /\ o_args.command = "version"
    /\ \E run \in VersionInfoRuns :
         OpsStep(run.cmds, "done", IF run.result = "returns" THEN "0" ELSE VersionFailure(run))

\* cmd_bump: if not args.allow_dirty and not check_working_directory_clean()
BumpCheckClean ==
    /\ pc_o = "start" /\ o_args.command = "bump"
    /\ IF o_args.allow_dirty
       THEN OpsStep(<< >>, "latest", o_ret)
       ELSE \E ok \in BOOLEAN :
              IF ~ok THEN OpsStep(<<GitStatus, CommandFailed>>, "done", "1")
              ELSE IF o_env.dirty THEN OpsStep(<<GitStatus>>, "done", "2")
              ELSE OpsStep(<<GitStatus>>, "latest", o_ret)

\* How a prompt that reads a choice ends: with a choice, with Ctrl-C
\* (KeyboardInterrupt, which the prompt catches), or with the EOFError that
\* input() raises on a standard input at end of file, which neither the
\* prompts nor the commands nor main catch
ChoiceOutcomes == {"chosen", "aborted", "EOFError"}

\* cmd_bump: get_latest_tag(), the increment type (asked for in interactive
\* mode, where Ctrl-C returns 1) and the new tag; then the dry-run test
BumpLatestTag ==
    /\ pc_o = "latest"
    /\ \E choice \in ChoiceOutcomes, listed \in BOOLEAN :
         /\ ~o_args.interactive => choice = "chosen"
         /\ LET cmds == IF listed THEN <<GitTagList>> ELSE <<GitTagList, CommandFailed>>
            IN  IF choice = "aborted" THEN OpsStep(cmds, "done", "1")
                ELSE IF choice = "EOFError" THEN OpsStep(cmds, "done", "EOFError")
                ELSE IF o_args.dry_run THEN OpsStep(cmds, "dry", o_ret)
                ELSE OpsStep(cmds, "verify", o_ret)

\* cmd_bump with --dry-run: get_current_version_info(), "Would create tag"
BumpDryRun ==
    /\ pc_o = "dry"
    /\ \E run \in VersionInfoRuns :
         OpsStep(run.cmds, "done", IF run.result = "returns" THEN "0" ELSE VersionFailure(run))

\* create_tag ignoring what git rev-parse --verify said
TagRefusedNever(e) == FALSE

\* create_tag: git rev-parse --verify succeeds when the tag exists, and then
\* VersionError is raised
TagRefused(e) == e.tag_exists

\* create_tag: git rev-parse --verify; VersionError makes cmd_bump return 1,
\* the GitError of a failed command is passed over
BumpVerifyTag ==
    /\ pc_o = "verify"
    /\ LET cmds == IF o_env.tag_exists THEN <<GitVerifyTag>>
                   ELSE <<GitVerifyTag, CommandFailed>>
       IN  IF TagRefused(o_env)
           THEN OpsStep(cmds, "done", "1")
           ELSE OpsStep(cmds, "tag", o_ret)

\* create_tag: git tag -a
BumpCreateTag ==
    /\ pc_o = "tag"
    /\ \E ok \in BOOLEAN :
         IF ~ok THEN OpsStep(<<GitTagCreate, CommandFailed>>, "done", "1")
         ELSE IF PushWanted(o_args) THEN OpsStep(<<GitTagCreate>>, "push", o_ret)
         ELSE OpsStep(<<GitTagCreate>>, "done", "0")

\* create_tag: git push origin
BumpPush ==
    /\ pc_o = "push"
    /\ \E ok \in BOOLEAN :
         IF ok THEN OpsStep(<<GitPushTag>>, "done", "0")
         ELSE OpsStep(<<GitPushTag, CommandFailed>>, "done", "1")

\* cmd_build without --docker, with --dry-run
BuildDryRun ==
    /\ pc_o = "start" /\ o_args.command = "build"
    /\ ~o_args.docker /\ o_args.dry_run
    /\ \E run \in VersionInfoRuns :
         OpsStep(run.cmds, "done", IF run.result = "returns" THEN "0" ELSE VersionFailure(run))

\* _display_build_plan: the answer to "Do you want to proceed": y or yes,
\* anything else or Ctrl-C (the plan is cancelled), or EOFError
PlanAnswers == {"confirmed", "cancelled", "EOFError"}

\* cmd_build without --docker: build_binary and the test of the binary.  A
\* cancelled plan makes build_binary return None, and running
\* "None --version" raises FileNotFoundError, which nothing catches.
BuildBinary ==
    /\ pc_o = "start" /\ o_args.command = "build"
    /\ ~o_args.docker /\ ~o_args.dry_run
    /\ \E run \in VersionInfoRuns, plan \in PlanAnswers, built \in BOOLEAN, tested \in BOOLEAN :
         IF run.result # "returns" THEN OpsStep(run.cmds, "done", VersionFailure(run))
         ELSE IF plan = "EOFError" THEN OpsStep(run.cmds, "done", "EOFError")
         ELSE IF plan = "cancelled" THEN OpsStep(run.cmds, "done", "FileNotFoundError")
         ELSE IF ~built THEN OpsStep(run.cmds \o <<GoBuild, CommandFailed>>, "done", "1")
         ELSE IF ~tested
         THEN OpsStep(run.cmds \o <<GoBuild, BinaryVersion, CommandFailed>>, "done", "1")
         ELSE OpsStep(run.cmds \o <<GoBuild, BinaryVersion>>, "done", "0")

\* build_docker_image as cmd_build and cmd_docker call it, after the commands
\* "before": get_current_version_info, the plan to confirm, the dry-run test
\* and the docker commands, of which the k-th fails (none when k is past the
\* last one).  Both callers return 1 for a GitError and 0 when it returns.
build_docker_image(a, before) ==
    \E run \in VersionInfoRuns, answer \in PlanAnswers :
       IF run.result # "returns"
       THEN OpsStep(before \o run.cmds, "done", VersionFailure(run))
       ELSE IF answer = "EOFError" THEN OpsStep(before \o run.cmds, "done", "EOFError")
       ELSE IF answer = "cancelled" THEN OpsStep(before \o run.cmds, "done", "0")
       ELSE LET plan == DockerCommands(a)
            IN  \E k \in 1..(Len(plan) + 1) :
                  IF k > Len(plan) THEN OpsStep(before \o run.cmds \o plan, "done", "0")
                  ELSE OpsStep(before \o run.cmds \o SubSeq(plan, 1, k) \o <<CommandFailed>>,
                               "done", IF IsManifestCommand(plan[k]) THEN "0" ELSE "1")

\* cmd_build --docker: build_docker_image with the arguments as parsed
BuildDocker ==
    /\ pc_o = "start" /\ o_args.command = "build"
    /\ o_args.docker
    /\ build_docker_image(o_args, << >>)

\* How a y/n prompt of cmd_docker ends: y, n, Ctrl-C (cmd_docker returns 1)
\* or EOFError
PromptAnswers == {"y", "n", "aborted", "EOFError"}

\* cmd_docker: get_recent_tags (git tag -l, [] when it fails), the tag given
\* with --tag or picked at the prompt, make_latest and multiarch from the
\* arguments or from a prompt (multiarch is asked for only without --tag),
\* then build_docker_image for that tag.  It returns 1 when the tag is not
\* among the listed ones, when no tag is listed, and when a prompt is aborted
\* (the tag prompt also by an answer that is no number); an EOFError of a
\* prompt leaves it.  A prompt that is not reached has its first answer.
CmdDocker ==
    /\ pc_o = "start" /\ o_args.command = "docker"
    /\ \E listed \in BOOLEAN, found \in BOOLEAN, tag_choice \in ChoiceOutcomes,
          latest_choice \in PromptAnswers, multiarch_choice \in PromptAnswers :
         LET recent == IF listed THEN <<GitTagList>> ELSE <<GitTagList, CommandFailed>>
             tag_asked == found /\ ~o_args.tag
             tag_known == found /\ tag_choice = "chosen"
             latest_asked == tag_known /\ o_args.latest_none
             latest_known == tag_known /\ latest_choice \in {"y", "n"}
             multiarch_asked == latest_known /\ o_args.multiarch_none /\ ~o_args.tag
             make_latest == IF o_args.latest_none THEN latest_choice = "y" ELSE o_args.latest
             multiarch == IF o_args.multiarch_none
                          THEN multiarch_asked /\ multiarch_choice = "y"
                          ELSE o_args.multiarch
         IN  /\ ~listed => ~found
             /\ ~tag_asked => tag_choice = "chosen"
             /\ ~latest_asked => latest_choice = "y"
             /\ ~multiarch_asked => multiarch_choice = "y"
             /\ IF ~found THEN OpsStep(recent, "done", "1")
                ELSE IF "EOFError" \in {tag_choice, latest_choice, multiarch_choice}
                THEN OpsStep(recent, "done", "EOFError")
                ELSE IF "aborted" \in {tag_choice, latest_choice, multiarch_choice}
                THEN OpsStep(recent, "done", "1")
                ELSE build_docker_image(
                        [o_args EXCEPT !.latest = make_latest, !.multiarch = multiarch],
                        recent)

NextOps ==
    \/ CmdVersion
    \/ BumpCheckClean
    \/ BumpLatestTag
    \/ BumpDryRun
    \/ BumpVerifyTag
    \/ BumpCreateTag
    \/ BumpPush
    \/ BuildDryRun
    \/ BuildBinary
    \/ BuildDocker
    \/ CmdDocker

SpecOps == InitOps /\ [][NextOps]_vars

Executed == {o_cmds[k] : k \in 1..Len(o_cmds)} \ {CommandFailed}

\* C12: with --dry-run nothing is changed: cmd_bump runs no git tag -a and no
\* git push, cmd_build runs no go build, build_docker_image runs no docker
\* command; every command that ran is a read-only git query.
C12_DryRunChangesNothing ==
    (o_args.dry_run) => Executed \subseteq ReadOnlyCommands

\* C12 witness: a docker build for three given architectures, asked for with
\* --dry-run, --multiarch, --push and --latest, returned 0 having run the
\* version queries only.
C12_Witness ==
    /\ pc_o = "done" /\ o_ret = "0"
    /\ o_args.command = "build" /\ o_args.docker /\ o_args.dry_run
    /\ o_args.push /\ o_args.latest
    /\ o_args.multiarch /\ Len(o_args.architectures) = 3
    /\ Len(o_cmds) >= 3 /\ Executed \subseteq ReadOnlyCommands

\* The command at position k of the log ran and exited with zero
Succeeded(k) == k = Len(o_cmds) \/ o_cmds[k + 1] # CommandFailed

\* C13: cmd_bump runs git tag -a only with a clean tree or --allow-dirty,
\* without --dry-run and right after git rev-parse --verify failed; a tree
\* found dirty without --allow-dirty ends with 2 and a tag that exists ends
\* with 1, both without git tag -a or git push; git push origin runs only
\* right after a git tag -a that succeeded, and only without --no-push.
C13_TagGuards ==
    /\ \A k \in 1..Len(o_cmds) :
         o_cmds[k] = GitTagCreate =>
            /\ o_args.allow_dirty \/ ~o_env.dirty
            /\ ~o_args.dry_run
            /\ ~o_env.tag_exists
            /\ k >= 3 /\ o_cmds[k - 2] = GitVerifyTag /\ o_cmds[k - 1] = CommandFailed
    /\ (/\ pc_o = "done" /\ o_args.command = "bump"
        /\ ~o_args.allow_dirty /\ o_env.dirty /\ o_cmds = <<GitStatus>>)
          => o_ret = "2"
    /\ (o_args.command = "bump" /\ ~o_args.allow_dirty /\ o_env.dirty)
          => (GitTagCreate \notin Executed /\ GitPushTag \notin Executed)
    /\ (pc_o = "done" /\ GitVerifyTag \in Executed /\ o_env.tag_exists)
          => (o_ret = "1" /\ GitTagCreate \notin Executed /\ GitPushTag \notin Executed)
    /\ \A k \in 1..Len(o_cmds) :
         o_cmds[k] = GitPushTag =>
            /\ ~o_args.no_push
            /\ k >= 2 /\ o_cmds[k - 1] = GitTagCreate

\* C13 witness: a bump on a clean tree whose tag did not exist created the
\* tag and pushed it.
C13_Witness ==
    /\ pc_o = "done" /\ o_ret = "0"
    /\ ~o_args.allow_dirty /\ ~o_env.dirty /\ ~o_args.no_push
    /\ GitTagCreate \in Executed /\ GitPushTag \in Executed

-----------------------------------------------------------------------------
(* gitea_handler.run_demo: the demo of general, inline and reply comments on *)
(* one pull request.  Every call of the Gitea API or of the web form may     *)
(* raise; run_demo catches only what its try blocks enclose.                 *)

notDemoVars == <<diffVars, resetVars, appVars, loginVars, hookVars, gitlabVars, githubVars,
                opsVars, notesVars, pagesVars>>

\* Comments that were on the pull request before the run
IssueOther == "issue comment of another user"
IssueOldDemo == "issue comment [demo-general] of an earlier run"
ReviewOther == "review comment of another user"
\* Comments the run creates
GeneralComment == "[demo-general]"
InlineComment == "[demo-inline]"
ReplyComment == "[demo-reply]"
ReloginComment == "[relogin-test]"
NoId == "None"

\* cleanup_comments._is_demo: the body contains "[demo" or "browser-form comment"
IsDemoBody(c) == c \in {IssueOldDemo, GeneralComment, InlineComment, ReplyComment}

DemoArgs == [delete_after : BOOLEAN, test_relogin : BOOLEAN, reply_parent : {NoId, ReviewOther}]

NoRefs == [general_id |-> NoId, inline_id |-> NoId, reply_id |-> NoId]

\* No list fetched yet
NoneListed == [review_comments |-> {}, issue_comments |-> {}]

InitDemo ==
    /\ IdleDiff /\ IdleReset /\ IdleApp /\ IdleLogin /\ IdleHook /\ IdleGitlab /\ IdleGithub
    /\ IdleOps /\ IdleNotes /\ IdlePages
    /\ m_args \in DemoArgs
    /\ m_issue \in SUBSET {IssueOther, IssueOldDemo}
    /\ m_review \in SUBSET {ReviewOther}
    /\ m_made = {}
    /\ m_removed = {}
    /\ m_refs = NoRefs
    /\ m_ctx = FALSE
    /\ m_listed = NoneListed
    /\ pc_m = "start"

\* if delete_after: delete_all_comments(...); return
DeleteOnly(a) == a.delete_after

\* run_demo: parse_pr_url, client.get_pull, then the mode
DemoStart ==
    /\ pc_m = "start"
    /\ \E ok \in BOOLEAN :
         pc_m' = IF ~ok THEN "raised"
                 ELSE IF DeleteOnly(m_args) THEN "delete_all"
                 ELSE IF m_args.test_relogin THEN "relogin"
                 ELSE "general"
    /\ UNCHANGED <<m_args, m_issue, m_review, m_made, m_removed, m_refs, m_ctx, m_listed>>
    /\ UNCHANGED notDemoVars

\* delete_all_comments: every issue comment through the API, every review
\* comment through the API, then the inline comments through the browser
\* session; an exception ends one of the three loops and the next one starts.
DemoDeleteAll ==
    /\ pc_m = "delete_all"
    /\ \E by_issue_api \in SUBSET m_issue, by_review_api \in SUBSET m_review :
         \E by_browser \in SUBSET (m_review \ by_review_api) :
            /\ m_issue' = m_issue \ by_issue_api
            /\ m_review' = m_review \ (by_review_api \cup by_browser)
            /\ m_removed' = m_removed \cup by_issue_api \cup by_review_api \cup by_browser
    /\ pc_m' = "done"
    /\ UNCHANGED <<m_args, m_made, m_refs, m_ctx, m_listed>>
    /\ UNCHANGED notDemoVars

\* test_relogin_flow, by where it ends.  create_session, list_inline_comment_ids
\* (raise_for_status) and the requests themselves may raise, and the exception
\* leaves run_demo; post_inline_comment and delete_inline_comment return the
\* status whatever it is, so a comment that was posted and that no delete
\* endpoint removed still ends with "Relogin test complete."
ReloginRuns ==
    {[posted |-> FALSE, deleted |-> FALSE, raised |-> TRUE]} \cup
    {[posted |-> p, deleted |-> FALSE, raised |-> TRUE] : p \in BOOLEAN} \cup
    {[posted |-> FALSE, deleted |-> FALSE, raised |-> FALSE]} \cup
    {[posted |-> TRUE, deleted |-> d, raised |-> FALSE] : d \in BOOLEAN}

\* test_relogin_flow: posts one inline comment and deletes what is new
DemoRelogin ==
    /\ pc_m = "relogin"
    /\ \E run \in ReloginRuns :
         /\ m_made' = IF run.posted THEN m_made \cup {ReloginComment} ELSE m_made
         /\ m_removed' = IF run.deleted THEN m_removed \cup {ReloginComment} ELSE m_removed
         /\ m_review' = IF run.posted /\ ~run.deleted THEN m_review \cup {ReloginComment}
                        ELSE m_review
         /\ pc_m' = IF run.raised THEN "raised" ELSE "done"
    /\ UNCHANGED <<m_args, m_issue, m_refs, m_ctx, m_listed>>
    /\ UNCHANGED notDemoVars

\* choose_inline_target and client.create_general_comment
DemoGeneral ==
    /\ pc_m = "general"
    /\ \E ok \in BOOLEAN :
         IF ok
         THEN /\ m_issue' = m_issue \cup {GeneralComment}
              /\ m_made' = m_made \cup {GeneralComment}
              /\ m_refs' = [m_refs EXCEPT !.general_id = GeneralComment]
              /\ pc_m' = "inline"
         ELSE /\ pc_m' = "raised"
              /\ UNCHANGED <<m_issue, m_made, m_refs>>
    /\ UNCHANGED <<m_args, m_review, m_removed, m_ctx, m_listed>>
    /\ UNCHANGED notDemoVars

\* GiteaClient.list_review_comments: the list of a 200 answer, [] for the
\* RuntimeError of any other answer (caught inside), or the exception of the
\* request itself.
ReviewListOutcomes == {"listed", "not available", "raises"}

\* create_session and post_inline_comment inside try/except, then
\* list_review_comments and find_comment_by_marker(inline_marker)
DemoInline ==
    /\ pc_m = "inline"
    /\ \E session \in BOOLEAN, posted \in BOOLEAN, list \in ReviewListOutcomes :
         /\ posted => (session /\ m_args.reply_parent = NoId)
         /\ m_ctx' = session
         /\ m_review' = IF posted THEN m_review \cup {InlineComment} ELSE m_review
         /\ m_made' = IF posted THEN m_made \cup {InlineComment} ELSE m_made
         /\ m_refs' = IF posted /\ list = "listed"
                      THEN [m_refs EXCEPT !.inline_id = InlineComment]
                      ELSE m_refs
         /\ m_listed' = [m_listed EXCEPT !.review_comments =
                             IF list = "listed" THEN m_review'
                             ELSE IF list = "not available" THEN {}
                             ELSE @]
         /\ pc_m' = IF list = "raises" THEN "raised" ELSE "reply"
    /\ UNCHANGED <<m_args, m_issue, m_removed>>
    /\ UNCHANGED notDemoVars

\* parent_id = reply_parent_override or inline_id; reply_inline_comment inside
\* try/except when there is a session and a parent; then list_review_comments
\* and list_issue_comments (which raises on any answer but 200), and the reply
\* is looked up by marker and target.path (the path of an overriding parent may
\* be another one)
DemoReply ==
    /\ pc_m = "reply"
    /\ \E replied \in BOOLEAN, list \in ReviewListOutcomes,
          issues_listed \in BOOLEAN, same_path \in BOOLEAN :
         LET parent_id == IF m_args.reply_parent # NoId THEN m_args.reply_parent
                          ELSE m_refs.inline_id
             found == replied /\ list = "listed" /\ same_path
             goes_on == list # "raises" /\ issues_listed
         IN  /\ replied => (m_ctx /\ parent_id # NoId)
             /\ (m_args.reply_parent = NoId) => same_path
             /\ (list = "raises") => issues_listed
             /\ m_review' = IF replied THEN m_review \cup {ReplyComment} ELSE m_review
             /\ m_made' = IF replied THEN m_made \cup {ReplyComment} ELSE m_made
             /\ m_refs' = IF found /\ goes_on THEN [m_refs EXCEPT !.reply_id = ReplyComment]
                          ELSE m_refs
             /\ m_listed' = [review_comments |->
                                 IF list = "listed" THEN m_review'
                                 ELSE IF list = "not available" THEN {}
                                 ELSE m_listed.review_comments,
                             issue_comments |->
                                 IF goes_on THEN m_issue ELSE m_listed.issue_comments]
             /\ pc_m' = IF goes_on THEN "summary" ELSE "raised"
    /\ UNCHANGED <<m_args, m_issue, m_removed, m_ctx>>
    /\ UNCHANGED notDemoVars

\* cleanup_comments: the review ids it deletes, created.reply_id and
\* created.inline_id when set and every comment with a demo body in the
\* review_comments list it was given
CleanupReviewIds == ({m_refs.reply_id, m_refs.inline_id} \ {NoId})
                    \cup {c \in m_listed.review_comments : IsDemoBody(c)}

\* cleanup_comments: the issue ids it deletes, created.general_id when set and
\* every comment with a demo body in the issue_comments list it was given
CleanupIssueIds == ({m_refs.general_id} \ {NoId})
                   \cup {c \in m_listed.issue_comments : IsDemoBody(c)}

\* summarize_comments (fetches the inline and the general comment again),
\* then: if delete_after: cleanup_comments(...)
DemoSummary ==
    /\ pc_m = "summary"
    /\ \E fetched \in BOOLEAN :
         IF ~fetched
         THEN /\ pc_m' = "raised"
              /\ UNCHANGED <<m_issue, m_review, m_removed>>
         ELSE IF m_args.delete_after
         THEN \E dr \in SUBSET CleanupReviewIds, di \in SUBSET CleanupIssueIds :
                /\ (dr # CleanupReviewIds) => (di = {})
                /\ m_review' = m_review \ dr
                /\ m_issue' = m_issue \ di
                /\ m_removed' = m_removed \cup dr \cup di
                /\ pc_m' = IF di = CleanupIssueIds /\ dr = CleanupReviewIds
                           THEN "done" ELSE "raised"
         ELSE /\ pc_m' = "done"
              /\ UNCHANGED <<m_issue, m_review, m_removed>>
    /\ UNCHANGED <<m_args, m_made, m_refs, m_ctx, m_listed>>
    /\ UNCHANGED notDemoVars

NextDemo ==
    \/ DemoStart
    \/ DemoDeleteAll
    \/ DemoRelogin
    \/ DemoGeneral
    \/ DemoInline
    \/ DemoReply
    \/ DemoSummary

SpecDemo == InitDemo /\ [][NextDemo]_vars

\* C14: a run of the demo with --delete that ends has created the general
\* comment, has removed every comment it created, and has removed no other.
C14_DeleteRemovesCreated ==
    (pc_m = "done" /\ m_args.delete_after) =>
        /\ GeneralComment \in m_made
        /\ m_made \subseteq m_removed
        /\ m_removed \subseteq m_made

-----------------------------------------------------------------------------
(* delete_all_comments.delete_all_visible_comments: one GET of the           *)
(* discussions of a merge request, then one DELETE for each visible note.    *)

notNotesVars == <<diffVars, resetVars, appVars, loginVars, hookVars, gitlabVars, githubVars,
                 opsVars, demoVars, pagesVars>>

MaxNotes == 2

\* How many discussions an answer holds
DiscussionCounts == {0, 1, 2}

\* A note of the answer: 'system': True, 'system': False, or no 'system' key
NoteKinds == {"system", "user", "unmarked"}

\* The discussions of an answer: each a list of notes
DiscussionLists ==
    UNION {[1..d -> UNION {[1..n -> NoteKinds] : n \in 0..MaxNotes}] : d \in DiscussionCounts}

FetchStatuses == {200, 404}
DeleteStatuses == {200, 204, 404}

\* note.get('system', True)
SystemFlagDefaultTrue(kind) == kind # "user"

\* note.get('system', False)
SystemFlag(kind) == kind = "system"

\* The notes of one discussion that are kept, each named by discussion and
\* place (the note id)
RECURSIVE NotesOf(_, _, _)
NotesOf(discussions, d, n) ==
    IF n > Len(discussions[d]) THEN << >>
    ELSE (IF ~SystemFlag(discussions[d][n]) THEN <<(<<d, n>>)>> ELSE << >>)
         \o NotesOf(discussions, d, n + 1)

\* for discussion in discussions: for note in discussion['notes']: ...append
RECURSIVE VisibleNotes(_, _)
VisibleNotes(discussions, d) ==
    IF d > Len(discussions) THEN << >>
    ELSE NotesOf(discussions, d, 1) \o VisibleNotes(discussions, d + 1)

\* delete_note: response.status_code in [200, 204]
delete_note(status) == status \in {200, 204}

InitNotes ==
    /\ IdleDiff /\ IdleReset /\ IdleApp /\ IdleLogin /\ IdleHook /\ IdleGitlab /\ IdleGithub
    /\ IdleOps /\ IdleDemo /\ IdlePages
    /\ v_resp \in [status : FetchStatuses, discussions : DiscussionLists]
    /\ v_visible = << >>
    /\ v_attempts = << >>
    /\ v_success = 0
    /\ v_failed = 0
    /\ v_ret = "none"
    /\ pc_v = "fetch"

\* The GET, the status test, the collection of the visible notes and the
\* return when there is none
FetchDiscussions ==
    /\ pc_v = "fetch"
    /\ IF v_resp.status # 200
       THEN /\ v_ret' = "False" /\ pc_v' = "done"
            /\ UNCHANGED v_visible
       ELSE LET notes == VisibleNotes(v_resp.discussions, 1)
            IN  /\ v_visible' = notes
                /\ IF notes = << >>
                   THEN v_ret' = "True" /\ pc_v' = "done"
                   ELSE v_ret' = v_ret /\ pc_v' = "delete"
    /\ UNCHANGED <<v_resp, v_attempts, v_success, v_failed>>
    /\ UNCHANGED notNotesVars

\* One turn of "for note in visible_notes", and after the last one the
\* summary and return failed_count == 0
DeleteNote ==
    /\ pc_v = "delete"
    /\ \E status \in DeleteStatuses :
         LET note == v_visible[Len(v_attempts) + 1]
             ok == delete_note(status)
             failed == IF ok THEN v_failed ELSE v_failed + 1
         IN  /\ v_attempts' = Append(v_attempts, [note |-> note, status |-> status])
             /\ v_success' = IF ok THEN v_success + 1 ELSE v_success
             /\ v_failed' = failed
             /\ IF Len(v_attempts) + 1 = Len(v_visible)
                THEN /\ v_ret' = (IF failed = 0 THEN "True" ELSE "False")
                     /\ pc_v' = "done"
                ELSE UNCHANGED <<v_ret, pc_v>>
    /\ UNCHANGED <<v_resp, v_visible>>
    /\ UNCHANGED notNotesVars

NextNotes ==
    \/ FetchDiscussions
    \/ DeleteNote

SpecNotes == InitNotes /\ [][NextNotes]_vars

\* The DELETE requests sent for the note at place n of discussion d
AttemptsFor(d, n) == {k \in 1..Len(v_attempts) : v_attempts[k].note = <<d, n>>}

\* C15: when delete_all_visible_comments has returned, every note of the
\* fetched discussions that is not a system note was sent one DELETE and no
\* system note was sent any, whatever the earlier answers were; it returned
\* True exactly when no DELETE was answered with a failure, and False when
\* the discussions could not be fetched (no DELETE is sent then).
C15_DeletesVisibleOnce ==
    (pc_v = "done") =>
        IF v_resp.status # 200
        THEN v_ret = "False" /\ v_attempts = << >>
        ELSE /\ \A d \in 1..Len(v_resp.discussions) :
                  \A n \in 1..Len(v_resp.discussions[d]) :
                     Cardinality(AttemptsFor(d, n))
                        = (IF v_resp.discussions[d][n] = "system" THEN 0 ELSE 1)
             /\ (v_ret = "True") <=>
                   (\A k \in 1..Len(v_attempts) : v_attempts[k].status \in {200, 204})
             /\ v_ret \in {"True", "False"}

\* C15 witness: the answer held a system note and two other notes; the first
\* DELETE failed, the second was still sent and succeeded, False was returned.
C15_Witness ==
    /\ pc_v = "done" /\ v_ret = "False"
    /\ \E d \in 1..Len(v_resp.discussions) :
          \E n \in 1..Len(v_resp.discussions[d]) : v_resp.discussions[d][n] = "system"
    /\ Len(v_attempts) = 2
    /\ v_attempts[1].status = 404
    /\ v_attempts[2].status = 204

-----------------------------------------------------------------------------
(* The comment-pagination loops: GitHubAPI.get_review_comments and           *)
(* get_issue_comments (gh_cli), fetch_all (gh_try), get_pull_request_comments *)
(* of bb_delete_comments and of delete_pr_comments.  The server holds        *)
(* p_items comments, numbered from 1, and serves them PageLen to a page.     *)

notPagesVars == <<diffVars, resetVars, appVars, loginVars, hookVars, gitlabVars, githubVars,
                 opsVars, demoVars, notesVars>>

MaxItems == 5
\* per_page / pagelen, scaled down
PageLen == 2

GhCliLoops == {"get_review_comments", "get_issue_comments"}
PageLoops == GhCliLoops \cup {"fetch_all", "bb_get_pull_request_comments",
                               "get_pull_request_comments"}

\* The server: the comments on page p of k comments
PageItems(k, p) ==
    LET before == (p - 1) * PageLen
        count == IF before + PageLen <= k THEN PageLen
                 ELSE IF before < k THEN k - before ELSE 0
    IN  [i \in 1..count |-> before + i]

\* The server: the answer to page p names a next page (Link rel="next", "next")
HasNext(k, p) == p * PageLen < k

\* The pages the server exposes (one empty page when it holds no comment)
NumPages(k) == IF k = 0 THEN 1 ELSE (k + PageLen - 1) \div PageLen

PageStatuses == {200, 500}

\* The loops cannot ask for more pages than this
MaxRequests == MaxItems + 2

InitPages ==
    /\ IdleDiff /\ IdleReset /\ IdleApp /\ IdleLogin /\ IdleHook /\ IdleGitlab /\ IdleGithub
    /\ IdleOps /\ IdleDemo /\ IdleNotes
    /\ p_loop \in PageLoops
    /\ p_items \in 0..MaxItems
    /\ p_page = 1
    /\ p_reqs = << >>
    /\ p_status = 0
    /\ p_all = << >>
    /\ p_out = << >>
    /\ p_ret = "none"
    /\ pc_p = "loop"

\* The loop goes on with all_comments and page as given
PageGoesOn(all, page) ==
    /\ p_all' = all
    /\ p_page' = page
    /\ UNCHANGED <<p_out, p_ret, pc_p>>

\* return out
PageReturns(all, out) ==
    /\ p_all' = all
    /\ p_out' = out
    /\ p_ret' = "returned"
    /\ pc_p' = "done"
    /\ UNCHANGED p_page

\* response.raise_for_status() on an answer that is not 200
PageRaises ==
    /\ p_ret' = "HTTPError"
    /\ pc_p' = "done"
    /\ UNCHANGED <<p_all, p_out, p_page>>

\* A loop that goes on after an empty page
NotCommentsNever(comments) == FALSE

\* if not comments: break
NotComments(comments) == comments = << >>

\* gh_cli: one turn of "while True" in get_review_comments / get_issue_comments
GhCliPage ==
    /\ pc_p = "loop" /\ p_loop \in GhCliLoops
    /\ Len(p_reqs) < MaxRequests
    /\ p_reqs' = Append(p_reqs, p_page)
    /\ \E status \in PageStatuses :
         /\ p_status' = status
         /\ LET comments == PageItems(p_items, p_page)
            IN  IF status # 200 THEN PageRaises
                ELSE IF NotComments(comments) THEN PageReturns(p_all, p_all)
                ELSE PageGoesOn(p_all \o comments, p_page + 1)
    /\ UNCHANGED <<p_loop, p_items>>
    /\ UNCHANGED notPagesVars

\* gh_try: one turn of "while url" in fetch_all
FetchAllPage ==
    /\ pc_p = "loop" /\ p_loop = "fetch_all"
    /\ Len(p_reqs) < MaxRequests
    /\ p_reqs' = Append(p_reqs, p_page)
    /\ \E status \in PageStatuses :
         /\ p_status' = status
         /\ LET results == p_all \o PageItems(p_items, p_page)
            IN  IF status # 200 THEN PageRaises
                ELSE IF HasNext(p_items, p_page) THEN PageGoesOn(results, p_page + 1)
                ELSE PageReturns(results, results)
    /\ UNCHANGED <<p_loop, p_items>>
    /\ UNCHANGED notPagesVars

\* bb_delete_comments: one turn of "while next_url"
BbDeletePage ==
    /\ pc_p = "loop" /\ p_loop = "bb_get_pull_request_comments"
    /\ Len(p_reqs) < MaxRequests
    /\ p_reqs' = Append(p_reqs, p_page)
    /\ \E status \in PageStatuses :
         /\ p_status' = status
         /\ LET all == p_all \o PageItems(p_items, p_page)
            IN  IF status # 200 THEN PageReturns(p_all, << >>)
                ELSE IF HasNext(p_items, p_page) THEN PageGoesOn(all, p_page + 1)
                ELSE PageReturns(all, all)
    /\ UNCHANGED <<p_loop, p_items>>
    /\ UNCHANGED notPagesVars

\* delete_pr_comments: one turn of "while True"
DeletePrPage ==
    /\ pc_p = "loop" /\ p_loop = "get_pull_request_comments"
    /\ Len(p_reqs) < MaxRequests
    /\ p_reqs' = Append(p_reqs, p_page)
    /\ \E status \in PageStatuses :
         /\ p_status' = status
         /\ LET comments == PageItems(p_items, p_page)
            IN  IF status # 200 THEN PageReturns(p_all, << >>)
                ELSE IF NotComments(comments) THEN PageReturns(p_all, p_all)
                ELSE IF ~HasNext(p_items, p_page)
                THEN PageReturns(p_all \o comments, p_all \o comments)
                ELSE PageGoesOn(p_all \o comments, p_page + 1)
    /\ UNCHANGED <<p_loop, p_items>>
    /\ UNCHANGED notPagesVars

NextPages ==
    \/ GhCliPage
    \/ FetchAllPage
    \/ BbDeletePage
    \/ DeletePrPage

SpecPages == InitPages /\ [][NextPages]_vars

\* Each script runs single-threaded and its blocking HTTP call returns, so a
\* loop that can take a turn takes it.
SpecPagesFair == SpecPages /\ WF_vars(NextPages)

BitbucketLoops == {"bb_get_pull_request_comments", "get_pull_request_comments"}

\* What a finished loop leaves: the pages were requested once each and in
\* order; after answers that were all 200 every page the server exposes was
\* requested and the list returned holds the comments of all pages in order,
\* each once; a Bitbucket loop that met another answer returned [].
PagesResult ==
    (pc_p = "done") =>
        /\ \A i \in 1..Len(p_reqs) : p_reqs[i] = i
        /\ (p_status = 200) =>
              /\ p_ret = "returned"
              /\ Len(p_reqs) >= NumPages(p_items)
              /\ p_out = [i \in 1..p_items |-> i]
        /\ (p_status # 200 /\ p_loop \in BitbucketLoops) =>
              (p_ret = "returned" /\ p_out = << >>)

\* C16: every pagination loop terminates when the server has finitely many
\* pages, and when it has ended it requested each page once in order and
\* returned the comments of all pages each exactly once; a page answered with
\* another status than 200 ends a Bitbucket loop with an empty list.
C16_PaginationCompletes == []PagesResult /\ <>(pc_p = "done")

\* C16 witness: get_pull_request_comments of delete_pr_comments fetched the
\* three pages of five comments and returned all five.
C16_Witness ==
    /\ pc_p = "done" /\ p_loop = "get_pull_request_comments"
    /\ p_items = MaxItems /\ Len(p_reqs) = NumPages(MaxItems) /\ Len(p_reqs) > 1
    /\ p_status = 200 /\ Len(p_out) = MaxItems

-----------------------------------------------------------------------------
(* analyze_hunk_lines against the body lines of the text *)

\* The headers of the text that parse_hunk_log turns into hunks
MatchedHeaders == {i \in 1..Len(lines) : HunkMatches(lines, i)}

\* The header of the text behind the hunk that analyze_hunk_lines is in
CurrentHeader ==
    LET h == Cardinality({j \in 1..pos : Items[j].h = "ok"})
    IN  CHOOSE i \in MatchedHeaders : Cardinality({m \in MatchedHeaders : m <= i}) = h

\* The place of Items[pos] in its hunk's 'lines'
PlaceInHunk ==
    LET hp == CHOOSE j \in 1..pos :
                 Items[j].h = "ok" /\ \A k \in (j + 1)..pos : Items[k].h # "ok"
    IN  pos - hp

\* The hunk of header i holds body lines only: each starts with ' ', '+' or '-'
PlainBody(i) ==
    \A k \in (i + 1)..(NextOkHeader(lines, i + 1) - 1) :
        lines[k].h = "no" /\ Prefix(lines[k]) \in {" ", "+", "-"}

\* The numbering of the body lines k..j-1 of a hunk, from the cursors o and n
RECURSIVE BodyNumbering(_, _, _, _)
BodyNumbering(k, j, o, n) ==
    IF k >= j THEN << >>
    ELSE IF Prefix(lines[k]) = "-"
    THEN <<[type |-> "deleted", old_line |-> o, new_line |-> 0]>>
         \o BodyNumbering(k + 1, j, o + 1, n)
    ELSE IF Prefix(lines[k]) = "+"
    THEN <<[type |-> "added", old_line |-> 0, new_line |-> n]>>
         \o BodyNumbering(k + 1, j, o, n + 1)
    ELSE <<[type |-> "context", old_line |-> o, new_line |-> n]>>
         \o BodyNumbering(k + 1, j, o + 1, n + 1)

\* C17: in a hunk of body lines, the k-th entry of hunk['lines'] that is not
\* empty is the k-th body line after the header: analyze_hunk_lines records it
\* with the type of its first character and the numbers counted from
\* old_start/new_start, also when the header carries section text and when
\* the first line is context.
C17_HunkLinesNumbered ==
    (/\ walker = "analyze" /\ pc_d = "walk" /\ pos <= Len(Items)
     /\ Items[pos].h = "no" /\ Items[pos].txt # << >>
     /\ PlainBody(CurrentHeader)) =>
        LET i == CurrentHeader
            expected == BodyNumbering(i + 1, NextOkHeader(lines, i + 1),
                                      lines[i].os, lines[i].ns)
        IN  /\ PlaceInHunk <= Len(expected)
            /\ analyze_entry(CurState, Items[pos]) = expected[PlaceInHunk]

-----------------------------------------------------------------------------
(* The two copies of find_first_added_line *)

\* The text is a unified diff: it starts with a hunk header, and every other
\* line is a hunk header or a body line (' ', '+', '-', or the '\' of
\* "\ No newline at end of file")
UnifiedDiff(ls) ==
    /\ ls # << >>
    /\ ls[1].h \in {"ok", "nocount"}
    /\ \A k \in 1..Len(ls) :
          \/ ls[k].h \in {"ok", "nocount"}
          \/ IsBodyOfKind(ls, k, {" ", "+", "-", "\\"})

AddedLines(ls) == {i \in 1..Len(ls) : IsBodyOfKind(ls, i, {"+"}) /\ InValidHunk(ls, i)}

FirstAdded(ls) == CHOOSE i \in AddedLines(ls) : \A k \in AddedLines(ls) : i <= k

\* C18: on a unified diff in which a hunk holds an added line, the
\* find_first_added_line of gitea_handler returns what the one of
\* clarity_mr_comments returns: the new-file number of the first '+' line,
\* new_start of its hunk plus the context lines before it in that hunk.
C18_FirstAddedAgree ==
    (/\ walker = "gitea_ffal" /\ pc_d = "returned"
     /\ UnifiedDiff(lines) /\ AddedLines(lines) # {}) =>
        /\ ret = clarity_find_first_added_line(lines)
        /\ ret = IntRet(NewNo(lines, FirstAdded(lines)))
====
